---- MODULE Spec2Model ----
(***************************************************************************)
(* Model of the command execution and completion-tracking protocol of      *)
(* tmux-mcp (src/src/tmux.ts): sequence allocation, dispatch of wrapped    *)
(* commands to panes, marker scanning of pane snapshots, record            *)
(* resolution and output slicing.                                          *)
(*                                                                         *)
(* Conventions.                                                            *)
(*  - Line indices are 0-based as in the source; sequences are 1-based,    *)
(*    so line index i of linesArr is linesArr[i + 1].                      *)
(*  - An optional value (a TypeScript field that may be undefined) is a    *)
(*    sequence of length 0 (undefined) or 1 (the value).  Optional numbers *)
(*    that are never negative when defined use Undefined instead.          *)
(*  - A pane line is a record, standing for the line after trim(): k is   *)
(*    what the marker regular expressions of checkCommandStatus make of    *)
(*    it ("start", "end" or "text"), seq and code are the captured groups  *)
(*    (for a text line seq numbers the line), txt is the text of an        *)
(*    ordinary line, src is the dispatch that made the shell print the     *)
(*    line (0 when unknown; history only, never read by the program).      *)
(***************************************************************************)
EXTENDS Integers, Sequences, FiniteSets, TLC

Undefined == -1

Some(x) == <<x>>
None == <<>>

Min(a, b) == IF a < b THEN a ELSE b
Max(a, b) == IF a > b THEN a ELSE b

\* ------------------------------------------------------------------ lines

DEFAULT_RESULT_LINES == 100

TAIL_PREVIEW_LINES == 10

StartMarker(seq, src) ==
  [k |-> "start", seq |-> seq, code |-> 0, txt |-> "TMUX_MCP_START", src |-> src]

EndMarker(exitCode, seq, src) ==
  [k |-> "end", seq |-> seq, code |-> exitCode, txt |-> "TMUX_MCP_DONE", src |-> src]

Text(txt, n, src) ==
  [k |-> "text", seq |-> n, code |-> 0, txt |-> txt, src |-> src]

IsBlank(line) == line.k = "text" /\ line.txt = ""

\* Array.prototype.slice(a, b) for 0 <= a: the elements with index in [a, b).
Slice(arr, a, b) ==
  IF a >= Min(b, Len(arr)) THEN <<>> ELSE SubSeq(arr, a + 1, Min(b, Len(arr)))

\* Array.prototype.slice(-n): the last n elements.
SliceLast(arr, n) == Slice(arr, Max(0, Len(arr) - n), Len(arr))

RECURSIVE DropLeadingBlank(_)
DropLeadingBlank(arr) ==
  IF arr # <<>> /\ IsBlank(Head(arr)) THEN DropLeadingBlank(Tail(arr)) ELSE arr

RECURSIVE DropTrailingBlank(_)
DropTrailingBlank(arr) ==
  IF arr # <<>> /\ IsBlank(arr[Len(arr)])
  THEN DropTrailingBlank(SubSeq(arr, 1, Len(arr) - 1))
  ELSE arr

\* lines.join('\n').trim(), kept as the lines of the resulting string: the
\* blank lines at both ends go.
JoinTrim(arr) == DropTrailingBlank(DropLeadingBlank(arr))

\* ------------------------------------------------------- output slicing

SliceOptions(lines, start, end) == [lines |-> lines, start |-> start, end |-> end]

NoOptions == SliceOptions(None, None, None)

hasSliceOptions(options) ==
  options.lines # None \/ options.start # None \/ options.end # None

\* A variant that never applies a limit: the whole output.
computeSliceBoundsWhole(totalLines, options, defaultLimit) ==
  [start |-> 0, end |-> totalLines]

\* A variant that takes the end index as exclusive.
computeSliceBoundsEndExclusive(totalLines, options, defaultLimit) ==
  [start |-> IF options.start # None THEN Max(0, options.start[1]) ELSE 0,
   end |-> IF options.end # None
           THEN Max(IF options.start # None THEN Max(0, options.start[1]) ELSE 0,
                    Min(totalLines, options.end[1]))
           ELSE totalLines]

\* A variant in which a line count takes precedence over an explicit range.
computeSliceBoundsLinesFirst(totalLines, options, defaultLimit) ==
  LET sliceStart ==
        IF options.lines # None
        THEN Max(0, totalLines - options.lines[1])
        ELSE IF options.start # None THEN Max(0, options.start[1])
        ELSE IF defaultLimit # None /\ totalLines > defaultLimit[1]
        THEN Max(0, totalLines - defaultLimit[1])
        ELSE 0
      sliceEnd ==
        IF options.lines = None /\ options.end # None
        THEN Min(totalLines, options.end[1] + 1)
        ELSE totalLines
  IN  [start |-> sliceStart,
       end |-> IF sliceEnd < sliceStart THEN sliceStart ELSE sliceEnd]

computeSliceBounds(totalLines, options, defaultLimit) ==
  LET sliceStart ==
        IF options.start # None \/ options.end # None
        THEN (IF options.start # None THEN Max(0, options.start[1]) ELSE 0)
        ELSE IF options.lines # None
        THEN Max(0, totalLines - options.lines[1])
        ELSE IF defaultLimit # None /\ totalLines > defaultLimit[1]
        THEN Max(0, totalLines - defaultLimit[1])
        ELSE 0
      sliceEnd ==
        IF (options.start # None \/ options.end # None) /\ options.end # None
        THEN Min(totalLines, options.end[1] + 1)
        ELSE totalLines
  IN  [start |-> sliceStart,
       end |-> IF sliceEnd < sliceStart THEN sliceStart ELSE sliceEnd]

TextResult(arr) == [kind |-> "text", lines |-> JoinTrim(arr)]

NoRecentOutput == [kind |-> "(no recent output)", lines |-> <<>>]

RawModeNotice == [kind |-> "Status tracking unavailable for rawMode commands", lines |-> <<>>]

\* A variant that keeps only the window as the cached output.
applyOutputSlicingKeepsWindow(command, options) ==
  IF command.outputLines = None THEN command
  ELSE
    LET all == command.outputLines[1]
        b == computeSliceBounds(Len(all), options,
                                IF hasSliceOptions(options) THEN None
                                ELSE Some(DEFAULT_RESULT_LINES))
        finalLines == Slice(all, b.start, b.end)
    IN  [command EXCEPT
          !.result = Some(TextResult(finalLines)),
          !.outputLines = Some(finalLines),
          !.returnedLines = Len(finalLines),
          !.lineStartIndex = b.start,
          !.lineEndIndex = b.end,
          !.totalLines = Len(all),
          !.truncated = Some(Len(all) > Len(finalLines)
                             \/ (command.markerStartLost = Some(TRUE)))]

applyOutputSlicing(command, options) ==
  IF command.outputLines = None THEN command
  ELSE
    LET all == command.outputLines[1]
        defaultLimit == IF hasSliceOptions(options) THEN None ELSE Some(DEFAULT_RESULT_LINES)
        b == computeSliceBounds(Len(all), options, defaultLimit)
        finalLines == Slice(all, b.start, b.end)
    IN  [command EXCEPT
          !.result = Some(TextResult(finalLines)),
          !.returnedLines = Len(finalLines),
          !.lineStartIndex = b.start,
          !.lineEndIndex = b.end,
          !.totalLines = Len(all),
          !.truncated = Some(Len(all) > Len(finalLines)
                             \/ (command.markerStartLost = Some(TRUE)))]

\* -------------------------------------------------------- marker scanner

\* const existing = blocksBySeq.get(seq) || {...}
NewStartBlock(seq) == [startLine |-> Undefined, endLine |-> -1, exitCode |-> -1, seq |-> seq]

NewEndBlock(seq, i, exitCode) ==
  [startLine |-> Undefined, endLine |-> i, exitCode |-> exitCode, seq |-> seq]

\* A variant that never approximates a missing start line.
inferStartLineNever(existing, lastEndLine) == existing

\* if (existing.startLine === undefined && lastEndLine >= 0)
\*   existing.startLine = lastEndLine + 1;
inferStartLine(existing, lastEndLine) ==
  IF existing.startLine = Undefined /\ lastEndLine >= 0
  THEN [existing EXCEPT !.startLine = lastEndLine + 1]
  ELSE existing

\* One iteration of the scan loop of checkCommandStatus on line index i.
\* st = [blocks |-> blocksBySeq, lastEndLine |-> lastEndLine].
ScanLine(st, i, line) ==
  LET seq == line.seq
      has == seq \in DOMAIN st.blocks
  IN  IF line.k = "start" THEN
        LET existing == IF has THEN st.blocks[seq] ELSE NewStartBlock(seq)
            updated == [existing EXCEPT !.startLine = i]
        IN  [st EXCEPT !.blocks = [s \in (DOMAIN st.blocks) \cup {seq} |->
                                     IF s = seq THEN updated ELSE st.blocks[s]]]
      ELSE IF line.k = "end" THEN
        LET existing == IF has THEN st.blocks[seq] ELSE NewEndBlock(seq, i, line.code)
            closed == [existing EXCEPT !.endLine = i, !.exitCode = line.code]
            updated == inferStartLine(closed, st.lastEndLine)
        IN  [blocks |-> [s \in (DOMAIN st.blocks) \cup {seq} |->
                           IF s = seq THEN updated ELSE st.blocks[s]],
             lastEndLine |-> i]
      ELSE st

\* Iterations lo .. hi - 1 of the scan loop, from loop state st.  The range is
\* scanned as two halves, the first half before the second, which keeps the
\* evaluation shallow on long snapshots.
RECURSIVE ScanRange(_, _, _, _)
ScanRange(st, linesArr, lo, hi) ==
  IF hi <= lo THEN st
  ELSE IF hi = lo + 1 THEN ScanLine(st, lo, linesArr[lo + 1])
  ELSE LET mid == (lo + hi) \div 2
           half == ScanRange(st, linesArr, lo, mid)
       IN  IF half.lastEndLine < mid
           THEN ScanRange(half, linesArr, mid, hi)
           ELSE half

\* blocksBySeq after the loop.
BuildBlocks(linesArr) ==
  ScanRange([blocks |-> <<>>, lastEndLine |-> -1], linesArr, 0, Len(linesArr)).blocks

\* A variant that shows the whole snapshot.
TailPreviewWhole(linesArr) ==
  IF JoinTrim(linesArr) # <<>> THEN [kind |-> "text", lines |-> JoinTrim(linesArr)]
  ELSE NoRecentOutput

\* The tail preview shown while the record stays pending.
TailPreview(linesArr) ==
  LET tail == JoinTrim(SliceLast(linesArr, TAIL_PREVIEW_LINES))
  IN  IF tail # <<>> THEN [kind |-> "text", lines |-> tail] ELSE NoRecentOutput

\* String.prototype.trim on the texts of the model: a word may stand between
\* two blanks, and no other text begins or ends with white space.
Words == {"ls", "x"}

Padded(word) == " " \o word \o " "

Trim(txt) ==
  IF \E w \in Words : txt = Padded(w)
  THEN CHOOSE w \in Words : txt = Padded(w)
  ELSE txt

\* A variant that compares the texts as they are.
RemoveEchoUntrimmed(outputLines, commandText) ==
  IF outputLines # <<>> /\ Head(outputLines).k = "text" /\ Head(outputLines).txt = commandText
  THEN Tail(outputLines)
  ELSE outputLines

\* if (outputLines.length && outputLines[0].trim() === command.command.trim())
RemoveEcho(outputLines, commandText) ==
  IF outputLines # <<>> /\ Head(outputLines).k = "text"
     /\ Trim(Head(outputLines).txt) = Trim(commandText)
  THEN Tail(outputLines)
  ELSE outputLines

\* A variant that keeps the start marker line in the output.
sliceStartLineAtMarker(block) ==
  IF block.startLine # Undefined THEN block.startLine ELSE 0

\* const sliceStartLine = (block.startLine !== undefined ? block.startLine + 1 : 0);
sliceStartLine(block) ==
  IF block.startLine # Undefined THEN block.startLine + 1 ELSE 0

\* A variant that reports every finished command as completed.
completionStatusAlwaysCompleted(exitCode) == "completed"

\* command.status = block.exitCode === 0 ? 'completed' : 'error';
completionStatus(exitCode) == IF exitCode = 0 THEN "completed" ELSE "error"

\* The part of checkCommandStatus that follows the capture: the record as the
\* call leaves it, given the captured lines.
ResolveCommand(command, linesArr, options) ==
  IF command.rawMode THEN [command EXCEPT !.result = Some(RawModeNotice)]
  ELSE
    LET blocksBySeq == BuildBlocks(linesArr)
        sequenceNumber == command.sequenceNumber
    IN  IF sequenceNumber = Undefined
        THEN [command EXCEPT !.result = Some(TailPreview(linesArr))]
        ELSE IF sequenceNumber \notin DOMAIN blocksBySeq
        THEN [command EXCEPT !.result = Some(TailPreview(linesArr))]
        ELSE
          LET block == blocksBySeq[sequenceNumber]
          IN  IF block.endLine < 0
              THEN [command EXCEPT !.result = Some(TailPreview(linesArr))]
              ELSE
                LET outputLines == RemoveEcho(Slice(linesArr, sliceStartLine(block), block.endLine),
                                              command.command)
                    marked == [command EXCEPT
                                !.status = completionStatus(block.exitCode),
                                !.exitCode = block.exitCode,
                                !.markerStartLost = Some(block.startLine = Undefined),
                                !.outputLines = Some(outputLines)]
                IN  applyOutputSlicing(marked, options)


\* ---------------------------------------------------------- shell dialects

supportedShellTypes == {"bash", "zsh", "fish", "tclsh"}

\* A variant that keeps any string.
normalizeShellTypeAny(type) == type

normalizeShellType(type) == IF type \in supportedShellTypes THEN type ELSE "bash"

Panes == {"%0", "%1"}

\* The commands of the model ("echo a", "false", and "x", a program that
\* prints its own name): the lines the program prints and the exit status the
\* shell reports for it.
CmdOutput(command) ==
  IF command = "echo a" THEN <<"a">>
  ELSE IF command = "x" THEN <<"x">>
  ELSE <<>>

CmdExit(command) == IF command \in {"echo a", "x"} THEN 0 ELSE 1

\* ------------------------------------------------------------------ state

VARIABLES
  shellConfig,                    \* [defaultType, paneOverrides]
  tclshInitializedPanes,          \* Set<string>
  wrappedCommandSequenceCounter,  \* let wrappedCommandSequenceCounter = 0
  activeCommands,                 \* the keys of the activeCommands Map
  commandObjects,                 \* the CommandExecution objects, by id
  calls,                          \* the executeCommand invocations, in dispatch order
  microQ,                         \* continuations waiting on the microtask queue
  checks,                         \* the checkCommandStatus invocations that captured a pane
  sendLog,                        \* the send-keys invocations, in invocation order
  paneLines,                      \* the scrollback of each pane
  shell,                          \* what the shell of each pane is doing
  run,                            \* bookkeeping of the run: what is left of the bounds,
                                  \* the history limit of the panes, history flags
  now,                            \* the clock (Date.now(), new Date()), in minutes
  waits,                          \* the waitForCompletion invocations
  returned                        \* what the last call that returned at once gave back

vars == <<shellConfig, tclshInitializedPanes, wrappedCommandSequenceCounter,
          activeCommands, commandObjects, calls, microQ, checks, sendLog,
          paneLines, shell, run, now, waits, returned>>

configVars == <<shellConfig, tclshInitializedPanes>>
registryVars == <<activeCommands, commandObjects>>
paneVars == <<paneLines, shell>>
apiVars == <<now, waits, returned>>

\* The bounds of the specifications: how many executeCommand calls, how many
\* capturing checkCommandStatus calls and how many setShellConfig calls a run
\* makes.
MaxCalls == 1
MaxRaceCalls == 2
MaxDispatches == 3
MaxChecks == 2
MaxConfigs == 1

\* The history limits of the panes of the model (tmux's history-limit): one
\* so short that a single command overflows it, and one no run fills.
ShortHistory == 2
LongHistory == 12

Budget(nCalls, nChecks, nConfigs, historyLimit) ==
  [calls |-> nCalls, checks |-> nChecks, configs |-> nConfigs,
   historyLimit |-> historyLimit, evicted |-> FALSE, polledBeforeDispatch |-> FALSE]

Idle(read) == [busy |-> FALSE, read |-> read, call |-> 0, seq |-> 0, left |-> <<>>, exit |-> 0]

NoOverrides == [p \in {} |-> "bash"]

\* The module-level state of tmux.ts as it is loaded.
InitProgram ==
  /\ now = 0
  /\ waits = <<>>
  /\ returned = None
  /\ shellConfig = [defaultType |-> "bash", paneOverrides |-> NoOverrides]
  /\ tclshInitializedPanes = {}
  /\ wrappedCommandSequenceCounter = 0
  /\ activeCommands = {}
  /\ commandObjects = <<>>
  /\ calls = <<>>
  /\ microQ = <<>>
  /\ checks = <<>>
  /\ sendLog = <<>>
  /\ paneLines = [p \in Panes |-> <<>>]
  /\ shell = [p \in Panes |-> Idle(0)]

\* ------------------------------------------------------------ shell config

setShellConfig(type, paneId) ==
  LET normalized == normalizeShellType(type)
  IN  IF paneId # None
      THEN /\ shellConfig' = [shellConfig EXCEPT !.paneOverrides =
                 [p \in (DOMAIN shellConfig.paneOverrides) \cup {paneId[1]} |->
                    IF p = paneId[1] THEN normalized ELSE shellConfig.paneOverrides[p]]]
           /\ tclshInitializedPanes' = tclshInitializedPanes \ {paneId[1]}
      ELSE /\ shellConfig' = [shellConfig EXCEPT !.defaultType = normalized]
           /\ tclshInitializedPanes' =
                IF normalized # "tclsh" THEN {} ELSE tclshInitializedPanes

SetShellConfig(type, paneId) ==
  /\ run.configs > 0
  /\ run' = [run EXCEPT !.configs = @ - 1]
  /\ setShellConfig(type, paneId)
  /\ UNCHANGED <<wrappedCommandSequenceCounter, registryVars, calls, microQ, checks,
                 sendLog, paneVars, apiVars>>

\* A variant that ignores the overrides.
resolveShellTypeDefaultOnly(paneId) == shellConfig.defaultType

resolveShellType(paneId) ==
  IF paneId \in DOMAIN shellConfig.paneOverrides
  THEN shellConfig.paneOverrides[paneId]
  ELSE shellConfig.defaultType


\* --------------------------------------------------------- executeCommand

\* What send-keys hands to the pane: the helper definition of
\* ensureTclshInitialized ("def"), a wrapped command of buildWrappedCommand or
\* buildTclshCommand ("cmd"), or the bare text of a rawMode command ("raw").
SendKeys(paneId, kind, shellType, seq, call) ==
  [paneId |-> paneId, kind |-> kind, shellType |-> shellType, seq |-> seq, call |-> call]

startMarkerBase == "TMUX_MCP_START"
endMarkerBase == "TMUX_MCP_DONE"

\* buildWrappedCommand: the text of the two template literals.  A template
\* literal substitutes ${...} only: in the fish template the characters
\* {$exitVar} follow the end marker base as they are written.
buildWrappedCommand(command, shellType, seq) ==
  LET exitVar == IF shellType = "fish" THEN "$status" ELSE "$?"
  IN  IF shellType = "fish"
      THEN "echo \"" \o startMarkerBase \o "_" \o ToString(seq) \o "\"; " \o command
             \o "; echo \"" \o endMarkerBase \o "_\"{$exitVar}\"_" \o ToString(seq) \o "\""
      ELSE "echo \"" \o startMarkerBase \o "_" \o ToString(seq) \o "\"; " \o command
             \o "; echo \"" \o endMarkerBase \o "_" \o exitVar \o "_" \o ToString(seq) \o "\""

\* buildTclshCommand
buildTclshCommand(command, seq) ==
  "::tmux_mcp::run " \o ToString(seq) \o " {" \o command \o "}"

\* fullCommand of executeCommand, the text of an entry e of the send log that
\* is not a helper definition.
fullCommand(e) ==
  LET command == calls[e.call].command
  IN  IF e.kind = "raw" THEN command
      ELSE IF e.shellType = "tclsh" THEN buildTclshCommand(command, e.seq)
      ELSE buildWrappedCommand(command, e.shellType, e.seq)

NewCommand(id, paneId, command, rawMode, sequenceNumber) ==
  [id |-> id, paneId |-> paneId, command |-> command, status |-> "pending",
   result |-> None, exitCode |-> Undefined, rawMode |-> rawMode,
   outputLines |-> None, truncated |-> None, totalLines |-> Undefined,
   returnedLines |-> Undefined, lineStartIndex |-> Undefined,
   lineEndIndex |-> Undefined, markerStartLost |-> None,
   sequenceNumber |-> sequenceNumber, startTime |-> now]

Put(f, key, value) == [x \in (DOMAIN f) \cup {key} |-> IF x = key THEN value ELSE f[x]]

\* A variant that does not commit the counter.
CommitAndSendUncommitted(id, fr) ==
  /\ UNCHANGED wrappedCommandSequenceCounter
  /\ commandObjects' = Put(commandObjects, id,
       NewCommand(id, fr.paneId, fr.command, fr.rawMode, fr.sequenceNumber))
  /\ activeCommands' = activeCommands \cup {id}
  /\ sendLog' = Append(sendLog,
       SendKeys(fr.paneId, IF fr.rawMode THEN "raw" ELSE "cmd", fr.shellType,
                fr.sequenceNumber, id))

\* Lines 960-995 of executeCommand: commit the counter, store the record,
\* invoke send-keys.  The call then waits for send-keys to return.
CommitAndSend(id, fr) ==
  /\ wrappedCommandSequenceCounter' =
       IF fr.sequenceNumber # Undefined /\ fr.sequenceNumber # 0
       THEN fr.sequenceNumber ELSE wrappedCommandSequenceCounter
  /\ commandObjects' = Put(commandObjects, id,
       NewCommand(id, fr.paneId, fr.command, fr.rawMode, fr.sequenceNumber))
  /\ activeCommands' = activeCommands \cup {id}
  /\ sendLog' = Append(sendLog,
       SendKeys(fr.paneId, IF fr.rawMode THEN "raw" ELSE "cmd", fr.shellType,
                fr.sequenceNumber, id))

\* A variant that numbers raw commands too.
ExecuteCommandNumbersRaw(paneId, command, rawMode) ==
  /\ run.calls > 0
  /\ run' = [run EXCEPT !.calls = @ - 1,
                         !.polledBeforeDispatch = @ \/ checks # <<>>]
  /\ LET id == Len(calls) + 1
         fr == [pc |-> "send", paneId |-> paneId, command |-> command, rawMode |-> rawMode,
                shellType |-> resolveShellType(paneId),
                sequenceNumber |-> wrappedCommandSequenceCounter + 1]
     IN  /\ calls' = Append(calls, fr)
         /\ CommitAndSend(id, fr)
         /\ UNCHANGED microQ
  /\ UNCHANGED <<configVars, checks, paneVars, apiVars>>

\* executeCommand(paneId, command, rawMode) up to its first suspension
\* (noEnter is left undefined).  The caller may be any code of the process,
\* a request handler or a continuation, so a call can start whenever no other
\* step is running, also while continuations wait on the microtask queue.
ExecuteCommand(paneId, command, rawMode) ==
  /\ run.calls > 0
  /\ run' = [run EXCEPT !.calls = @ - 1,
                         !.polledBeforeDispatch = @ \/ checks # <<>>]
  /\ LET id == Len(calls) + 1
         shellType == resolveShellType(paneId)
         sequenceNumber == IF ~rawMode THEN wrappedCommandSequenceCounter + 1 ELSE Undefined
         fr == [pc |-> "send", paneId |-> paneId, command |-> command, rawMode |-> rawMode,
                shellType |-> shellType, sequenceNumber |-> sequenceNumber]
     IN  IF ~rawMode /\ shellType = "tclsh"
         THEN IF paneId \in tclshInitializedPanes
              THEN \* ensureTclshInitialized returns at once; the await yields
                   /\ calls' = Append(calls, [fr EXCEPT !.pc = "tick"])
                   /\ microQ' = Append(microQ, id)
                   /\ UNCHANGED <<wrappedCommandSequenceCounter, registryVars, sendLog>>
              ELSE \* ensureTclshInitialized sends the helper definition and waits
                   /\ calls' = Append(calls, [fr EXCEPT !.pc = "ensure"])
                   /\ sendLog' = Append(sendLog, SendKeys(paneId, "def", shellType, Undefined, id))
                   /\ UNCHANGED <<wrappedCommandSequenceCounter, registryVars, microQ>>
         ELSE /\ calls' = Append(calls, fr)
              /\ CommitAndSend(id, fr)
              /\ UNCHANGED microQ
  /\ UNCHANGED <<configVars, checks, paneVars, apiVars>>

\* The send-keys of ensureTclshInitialized returns: the pane is marked and the
\* awaiting executeCommand is queued to continue.
EnsureReturn(id) ==
  /\ id \in DOMAIN calls
  /\ calls[id].pc = "ensure"
  /\ microQ = <<>>
  /\ tclshInitializedPanes' = tclshInitializedPanes \cup {calls[id].paneId}
  /\ calls' = [calls EXCEPT ![id].pc = "tick"]
  /\ microQ' = Append(microQ, id)
  /\ UNCHANGED <<shellConfig, wrappedCommandSequenceCounter, registryVars, checks,
                 sendLog, paneVars, run, apiVars>>

\* executeCommand continues after `await ensureTclshInitialized(paneId)`.
ExecuteContinue(id) ==
  /\ microQ # <<>>
  /\ Head(microQ) = id
  /\ calls[id].pc = "tick"
  /\ microQ' = Tail(microQ)
  /\ calls' = [calls EXCEPT ![id].pc = "send"]
  /\ CommitAndSend(id, calls[id])
  /\ UNCHANGED <<configVars, checks, paneVars, run, apiVars>>

\* The final send-keys returns and executeCommand returns the command id.
SendReturn(id) ==
  /\ id \in DOMAIN calls
  /\ calls[id].pc = "send"
  /\ microQ = <<>>
  /\ calls' = [calls EXCEPT ![id].pc = "done"]
  /\ UNCHANGED <<configVars, wrappedCommandSequenceCounter, registryVars, microQ, checks,
                 sendLog, paneVars, run, apiVars>>

\* The log without the keys of call `id` that send-keys did not deliver.
Undelivered(log, id, kinds) ==
  LET Kept(e) == ~(e.call = id /\ e.kind \in kinds)
  IN  SelectSeq(log, Kept)

\* The final send-keys fails: executeTmux throws (lines 593-595), nothing in
\* executeCommand catches it, and the call rejects.  The pane never receives
\* the text.
SendFail(id) ==
  /\ id \in DOMAIN calls
  /\ calls[id].pc = "send"
  /\ microQ = <<>>
  /\ calls' = [calls EXCEPT ![id].pc = "failed"]
  /\ sendLog' = Undelivered(sendLog, id, {"cmd", "raw"})
  /\ UNCHANGED <<configVars, wrappedCommandSequenceCounter, registryVars, microQ, checks,
                 paneVars, run, apiVars>>

\* The send-keys of ensureTclshInitialized fails: the pane is not marked
\* (line 1183 is not reached) and executeCommand rejects at line 952.
EnsureFail(id) ==
  /\ id \in DOMAIN calls
  /\ calls[id].pc = "ensure"
  /\ microQ = <<>>
  /\ calls' = [calls EXCEPT ![id].pc = "failed"]
  /\ sendLog' = Undelivered(sendLog, id, {"def"})
  /\ UNCHANGED <<configVars, wrappedCommandSequenceCounter, registryVars, microQ, checks,
                 paneVars, run, apiVars>>


\* ---------------------------------------------------------- pane and shell

\* The keys sent to pane p, in the order send-keys was invoked.
RECURSIVE PaneInput(_, _)
PaneInput(log, p) ==
  IF log = <<>> THEN <<>>
  ELSE IF Head(log).paneId = p THEN <<Head(log)>> \o PaneInput(Tail(log), p)
  ELSE PaneInput(Tail(log), p)

\* The pane prints lines; the oldest lines beyond the history limit are lost.
Printed(scrollback, new) == SliceLast(scrollback \o new, run.historyLimit)

PanePrint(p, new) ==
  /\ paneLines' = [paneLines EXCEPT ![p] = Printed(@, new)]
  /\ run' = [run EXCEPT !.evicted = @ \/ Len(paneLines[p]) + Len(new) > run.historyLimit]

\* The line the terminal shows for typed input.
EchoLine(e) == Text("$ " \o e.kind, 0, e.call)

\* The shell of pane p reads the next typed line.  A wrapped command starts by
\* printing its start marker (echo "TMUX_MCP_START_<seq>"; or the puts of the
\* tclsh helper); the helper definition prints nothing.
ShellRead(p) ==
  /\ ~shell[p].busy
  /\ shell[p].read < Len(PaneInput(sendLog, p))
  /\ LET e == PaneInput(sendLog, p)[shell[p].read + 1]
         running == [busy |-> TRUE, read |-> shell[p].read + 1, call |-> e.call,
                     seq |-> e.seq,
                     left |-> CmdOutput(calls[e.call].command),
                     exit |-> CmdExit(calls[e.call].command)]
     IN  \/ /\ e.kind = "def"
            /\ PanePrint(p, <<EchoLine(e)>>)
            /\ shell' = [shell EXCEPT ![p] = Idle(shell[p].read + 1)]
         \/ /\ e.kind = "cmd"
            /\ PanePrint(p, <<EchoLine(e), StartMarker(e.seq, e.call)>>)
            /\ shell' = [shell EXCEPT ![p] = running]
         \/ /\ e.kind = "raw"
            /\ PanePrint(p, <<EchoLine(e)>>)
            /\ shell' = [shell EXCEPT ![p] = running]
  /\ UNCHANGED <<configVars, wrappedCommandSequenceCounter, registryVars, calls, microQ,
                 checks, sendLog, apiVars>>

\* The running command prints its next line.
ShellPrint(p) ==
  /\ shell[p].busy
  /\ shell[p].left # <<>>
  /\ PanePrint(p, <<Text(Head(shell[p].left), 0, shell[p].call)>>)
  /\ shell' = [shell EXCEPT ![p].left = Tail(@)]
  /\ UNCHANGED <<configVars, wrappedCommandSequenceCounter, registryVars, calls, microQ,
                 checks, sendLog, apiVars>>

\* The running command ends; a wrapped one prints its end marker
\* (echo "TMUX_MCP_DONE_$?_<seq>").
ShellFinish(p) ==
  /\ shell[p].busy
  /\ shell[p].left = <<>>
  /\ PanePrint(p, IF shell[p].seq # Undefined
                   THEN <<EndMarker(shell[p].exit, shell[p].seq, shell[p].call)>>
                   ELSE <<>>)
  /\ shell' = [shell EXCEPT ![p] = Idle(shell[p].read)]
  /\ UNCHANGED <<configVars, wrappedCommandSequenceCounter, registryVars, calls, microQ,
                 checks, sendLog, apiVars>>

\* capturePaneContent(paneId, { lines: 0 }): capture-pane -S - -E -, the
\* output trimmed by executeTmux and split into lines again by the caller
\* (''.split('\n') is one empty line).
capturePaneContent(scrollback) ==
  LET trimmed == JoinTrim(scrollback)
  IN  IF trimmed = <<>> THEN <<Text("", 0, 0)>> ELSE trimmed

\* The values of the options start and end (string | number): the type, the
\* text String(value), and Number(value) with its NaN flag.
JsNumber(n) == [type |-> "number", str |-> ToString(n), nan |-> FALSE, num |-> n]

JsNumericString(n) == [type |-> "string", str |-> ToString(n), nan |-> FALSE, num |-> n]

JsDash == [type |-> "string", str |-> "-", nan |-> TRUE, num |-> 0]

DEFAULT_CAPTURE_LINES == 200

\* const { lines = 200, start, end } = options
CaptureOptions(lines, start, end) == [lines |-> lines, start |-> start, end |-> end]

LinesOf(options) ==
  IF options.lines = None THEN DEFAULT_CAPTURE_LINES ELSE options.lines[1]

\* The -S and -E arguments of the capture-pane command.
tmuxStart(options) ==
  IF options.start # None THEN options.start[1].str
  ELSE IF LinesOf(options) = 0 THEN "-"
  ELSE "-" \o ToString(LinesOf(options))

tmuxEnd(options) == "-"

\* What capture-pane prints for the scrollback of a pane: the whole of it
\* for -S -, and for any other -S a tail of it that starts at a line of the
\* multiplexer's choosing.
CapturePane(scrollback, S) ==
  IF S = "-" THEN {scrollback}
  ELSE {Slice(scrollback, k, Len(scrollback)) : k \in 0..Len(scrollback)}

\* executeTmux trims the output; capturedLines.split('\n')
SplitLines(stdout) ==
  LET trimmed == JoinTrim(stdout)
  IN  IF trimmed = <<>> THEN <<Text("", 0, 0)>> ELSE trimmed

\* arr.join('\n') as the lines of the string: the join of one empty line is
\* the empty string, as the join of no line is.
JoinLines(arr) == IF arr = <<Text("", 0, 0)>> THEN <<>> ELSE arr

\* A variant that takes the end index as exclusive.
captureSliceEndExclusive(linesArray, options) ==
  LET T == Len(linesArray)
      start == options.start
      end == options.end
      sliceStart ==
        IF start # None
        THEN LET startValue == IF start[1].type = "number" THEN start[1].num
                               ELSE IF start[1].str = "-" THEN 0 ELSE start[1].num
                 isNaN == start[1].type = "string" /\ start[1].str # "-" /\ start[1].nan
             IN  IF isNaN THEN 0
                 ELSE IF startValue < 0 THEN Max(0, T + startValue)
                 ELSE Min(T, startValue)
        ELSE IF LinesOf(options) > 0 THEN Max(0, T - LinesOf(options))
        ELSE 0
      sliceEnd ==
        IF end # None
        THEN LET endValue == IF end[1].type = "number" THEN end[1].num
                             ELSE IF end[1].str = "-" THEN T - 1 ELSE end[1].num
                 isNaN == end[1].type = "string" /\ end[1].str # "-" /\ end[1].nan
             IN  IF isNaN THEN T
                 ELSE IF endValue < 0 THEN Max(0, T + endValue)
                 ELSE Min(T, endValue)
        ELSE T
  IN  [sliceStart |-> sliceStart,
       sliceEnd |-> IF sliceEnd < sliceStart THEN sliceStart ELSE sliceEnd]

\* The slice indices capturePaneContent computes for the captured lines.
captureSlice(linesArray, options) ==
  LET T == Len(linesArray)
      start == options.start
      end == options.end
      sliceStart ==
        IF start # None
        THEN LET startValue == IF start[1].type = "number" THEN start[1].num
                               ELSE IF start[1].str = "-" THEN 0 ELSE start[1].num
                 isNaN == start[1].type = "string" /\ start[1].str # "-" /\ start[1].nan
             IN  IF isNaN THEN 0
                 ELSE IF startValue < 0 THEN Max(0, T + startValue)
                 ELSE Min(T, startValue)
        ELSE IF LinesOf(options) > 0 THEN Max(0, T - LinesOf(options))
        ELSE 0
      sliceEnd ==
        IF end # None
        THEN LET endValue == IF end[1].type = "number" THEN end[1].num
                             ELSE IF end[1].str = "-" THEN T - 1 ELSE end[1].num
                 isNaN == end[1].type = "string" /\ end[1].str # "-" /\ end[1].nan
             IN  IF isNaN THEN T
                 ELSE IF endValue < 0 THEN Max(0, T + endValue + 1)
                 ELSE Min(T, endValue + 1)
        ELSE T
  IN  [sliceStart |-> sliceStart,
       sliceEnd |-> IF sliceEnd < sliceStart THEN sliceStart ELSE sliceEnd]

\* capturePaneContent(paneId, options) with the call it makes and the string
\* it returns: capture-pane reads the pane as the call is made, and the rest
\* of the function computes on the captured text only.
CapturePaneContent(paneId, options) ==
  /\ \E stdout \in CapturePane(paneLines[paneId], tmuxStart(options)) :
       LET linesArray == SplitLines(stdout)
           idx == captureSlice(linesArray, options)
       IN  returned' = Some([op |-> "capturePaneContent", options |-> options,
                             S |-> tmuxStart(options), E |-> tmuxEnd(options),
                             linesArray |-> linesArray,
                             content |-> JoinLines(Slice(linesArray, idx.sliceStart,
                                                         idx.sliceEnd))])
  /\ UNCHANGED <<configVars, wrappedCommandSequenceCounter, registryVars, calls, microQ,
                 checks, sendLog, paneVars, run, now, waits>>

\* ----------------------------------------------------- checkCommandStatus

\* Whether the scan reaches "Mark completion" for this record.
Finalizes(command, linesArr) ==
  /\ ~command.rawMode
  /\ command.sequenceNumber # Undefined
  /\ command.sequenceNumber \in DOMAIN BuildBlocks(linesArr)
  /\ BuildBlocks(linesArr)[command.sequenceNumber].endLine >= 0

\* checkCommandStatus(commandId, options) up to its return or its suspension
\* on capturePaneContent; capture-pane reads the pane as the call is made and
\* the call continues (CheckResume) when the multiplexer process has ended.
checkCommandStatus(commandId, options) ==
  IF commandId \notin activeCommands
  THEN UNCHANGED <<configVars, wrappedCommandSequenceCounter, registryVars, calls, microQ,
                   checks, sendLog, paneVars, run>>
  ELSE
    LET command == commandObjects[commandId]
    IN  IF command.status # "pending"
        THEN /\ commandObjects' =
                  IF command.outputLines # None
                     /\ (hasSliceOptions(options) \/ command.result = None)
                  THEN [commandObjects EXCEPT ![commandId] = applyOutputSlicing(command, options)]
                  ELSE commandObjects
             /\ UNCHANGED <<configVars, wrappedCommandSequenceCounter, activeCommands, calls,
                            microQ, checks, sendLog, paneVars, run>>
        ELSE /\ run.checks > 0
             /\ run' = [run EXCEPT !.checks = @ - 1]
             /\ checks' = Append(checks, [commandId |-> commandId, options |-> options,
                                          pc |-> "resume",
                                          content |-> capturePaneContent(paneLines[command.paneId])])
             /\ UNCHANGED <<configVars, wrappedCommandSequenceCounter, registryVars, calls,
                            microQ, sendLog, paneVars>>

\* The call, its return value left aside.
CheckCommandStatus(commandId, options) ==
  /\ checkCommandStatus(commandId, options)
  /\ UNCHANGED apiVars

\* What a call gives back: null, the record (a reference to the object in the
\* registry), a text or a list of lines, or an error.
Returns(op, commandId, kind, lines) ==
  Some([op |-> op, commandId |-> commandId, kind |-> kind, lines |-> lines])

\* The call with the value it returns at once: null for an id that is not in
\* the registry (`if (!command) return null`), the record when it is terminal.
\* A call that suspends on the capture has returned nothing yet.
CheckCommandStatusObserved(commandId, options) ==
  /\ checkCommandStatus(commandId, options)
  /\ returned' =
       IF commandId \notin activeCommands
       THEN Returns("checkCommandStatus", commandId, "null", <<>>)
       ELSE IF commandObjects[commandId].status # "pending"
       THEN Returns("checkCommandStatus", commandId, "record", <<>>)
       ELSE returned
  /\ UNCHANGED <<now, waits>>

\* getCommandOutput(commandId, options): reads the registry, changes nothing.
getCommandOutput(commandId, options) ==
  IF commandId \notin activeCommands \/ commandObjects[commandId].outputLines = None
  THEN Returns("getCommandOutput", commandId, "null", <<>>)
  ELSE LET outputLines == commandObjects[commandId].outputLines[1]
           b == computeSliceBounds(Len(outputLines), options, None)
       IN  Returns("getCommandOutput", commandId, "text", Slice(outputLines, b.start, b.end))

GetCommandOutput(commandId, options) ==
  /\ returned' = getCommandOutput(commandId, options)
  /\ UNCHANGED <<configVars, wrappedCommandSequenceCounter, registryVars, calls, microQ,
                 checks, sendLog, paneVars, run, now, waits>>

\* Regular expressions are the one-word patterns below: a word matches the
\* lines made of that word, at index 0 and over the length of the word; with
\* the flag i the case of the word is ignored; "(" is not a regular
\* expression (new RegExp throws).
GrepPatterns == {"line", "LINE", "a", "("}

\* The flags argument: undefined, or a string of flags.
GrepFlags == {None, Some("g"), Some("i"), Some("gi")}

Global(flags) == flags \in {Some("g"), Some("gi")}

IgnoreCase(flags) == flags \in {Some("i"), Some("gi")}

ValidPattern(pattern) == pattern # "("

LowerCase(word) == IF word = "LINE" THEN "line" ELSE word

\* Whether the pattern matches the line (at index 0).
RegexTest(pattern, flags, line) ==
  IF IgnoreCase(flags) THEN LowerCase(line.txt) = LowerCase(pattern)
  ELSE line.txt = pattern

\* A variant of the search in which a global expression starts at index 0 as
\* any other: lastIndex is not read.
RegexExecFromStart(pattern, flags, line, lastIndex) ==
  [found |-> RegexTest(pattern, flags, line), lastIndex |-> 0]

\* regex.test(line) on the expression object: a global expression searches
\* from its lastIndex and sets it to the end of the match, or to 0 when there
\* is none; any other expression searches from index 0 and keeps lastIndex 0.
RegexExec(pattern, flags, line, lastIndex) ==
  IF Global(flags)
  THEN LET found == RegexTest(pattern, flags, line) /\ lastIndex = 0
       IN  [found |-> found, lastIndex |-> IF found THEN Len(pattern) ELSE 0]
  ELSE [found |-> RegexTest(pattern, flags, line), lastIndex |-> 0]

\* outputLines.filter(line => regex.test(line)) from the line at index i on,
\* the one expression object carrying its lastIndex from line to line.
RECURSIVE FilterTest(_, _, _, _, _)
FilterTest(outputLines, i, pattern, flags, lastIndex) ==
  IF i > Len(outputLines) THEN <<>>
  ELSE LET r == RegexExec(pattern, flags, outputLines[i], lastIndex)
       IN  (IF r.found THEN <<outputLines[i]>> ELSE <<>>)
             \o FilterTest(outputLines, i + 1, pattern, flags, r.lastIndex)

\* grepCommandOutput(commandId, pattern, flags): the lines of the cached
\* output that the filter keeps; an empty list when there is no record, no
\* cached output or no valid pattern.
grepCommandOutput(commandId, pattern, flags) ==
  IF commandId \notin activeCommands \/ commandObjects[commandId].outputLines = None
  THEN <<>>
  ELSE IF ~ValidPattern(pattern)
  THEN <<>>
  ELSE FilterTest(commandObjects[commandId].outputLines[1], 1, pattern, flags, 0)

GrepCommandOutput(commandId, pattern, flags) ==
  /\ returned' = Returns("grepCommandOutput", commandId, "lines",
                         grepCommandOutput(commandId, pattern, flags))
  /\ UNCHANGED <<configVars, wrappedCommandSequenceCounter, registryVars, calls, microQ,
                 checks, sendLog, paneVars, run, now, waits>>

\* The handler of the grep-command-output tool (index.ts): an error for an
\* unknown id and for a pending record, else the first `limit` matches.
grepCommandOutputTool(commandId, pattern, flags, limit) ==
  IF commandId \notin activeCommands
  THEN Returns("grep-command-output", commandId, "isError: Command not found", <<>>)
  ELSE IF commandObjects[commandId].status = "pending"
  THEN Returns("grep-command-output", commandId, "isError: Command still pending", <<>>)
  ELSE LET lines == grepCommandOutput(commandId, pattern, flags)
       IN  Returns("grep-command-output", commandId, "matches",
                   IF limit # None THEN Slice(lines, 0, limit[1]) ELSE lines)

GrepCommandOutputTool(commandId, pattern, flags, limit) ==
  /\ returned' = grepCommandOutputTool(commandId, pattern, flags, limit)
  /\ UNCHANGED <<configVars, wrappedCommandSequenceCounter, registryVars, calls, microQ,
                 checks, sendLog, paneVars, run, now, waits>>

\* ------------------------------------------------------ cleanupOldCommands

\* Milliseconds in a minute (`1000 * 60`).
MsPerMinute == 60000

\* A variant that removes old records whatever their status.
reapsWhateverStatus(command, ageMs, maxAgeMinutes) ==
  ageMs > maxAgeMinutes * MsPerMinute

\* `command.status !== 'pending' && ageMinutes > maxAgeMinutes`, where
\* ageMinutes is ageMs / MsPerMinute in floating point: for a whole number of
\* minutes the comparison is that of the milliseconds.
reaps(command, ageMs, maxAgeMinutes) ==
  /\ command.status # "pending"
  /\ ageMs > maxAgeMinutes * MsPerMinute

\* cleanupOldCommands(maxAgeMinutes): deletes keys of the registry; the
\* record objects are not touched.
CleanupOldCommands(maxAgeMinutes) ==
  /\ activeCommands' =
       {id \in activeCommands :
          ~reaps(commandObjects[id], now - commandObjects[id].startTime, maxAgeMinutes)}
  /\ UNCHANGED <<configVars, wrappedCommandSequenceCounter, commandObjects, calls, microQ,
                 checks, sendLog, paneVars, run, apiVars>>

\* A checkCommandStatus invocation that has returned.
CheckDone == [commandId |-> 0, options |-> NoOptions, pc |-> "done", content |-> <<>>]

\* checkCommandStatus continues after `await capturePaneContent(...)`.
checkResume(c) ==
  /\ c \in DOMAIN checks
  /\ checks[c].pc = "resume"
  /\ microQ = <<>>
  /\ LET id == checks[c].commandId
         command == commandObjects[id]
         linesArr == checks[c].content
     IN  /\ commandObjects' = [commandObjects EXCEPT
              ![id] = ResolveCommand(command, linesArr, checks[c].options)]
         /\ activeCommands' = IF Finalizes(command, linesArr)
                              THEN activeCommands \cup {id} ELSE activeCommands
  /\ checks' = [checks EXCEPT ![c] = CheckDone]
  /\ UNCHANGED <<configVars, wrappedCommandSequenceCounter, calls, microQ, sendLog,
                 paneVars, run>>

\* The continuation of a checkCommandStatus that no waitForCompletion awaits.
CheckResume(c) ==
  /\ \A w \in DOMAIN waits : ~(waits[w].pc = "poll" /\ waits[w].check = c)
  /\ checkResume(c)
  /\ UNCHANGED apiVars

\* ------------------------------------------------------- waitForCompletion

\* The clock (Date.now(), new Date()) advances by d milliseconds.
Tick(d, limit) ==
  /\ now + d <= limit
  /\ now' = now + d
  /\ UNCHANGED <<configVars, wrappedCommandSequenceCounter, registryVars, calls, microQ,
                 checks, sendLog, paneVars, run, waits, returned>>

\* A variant whose loop polls for as long as the record is pending.
keepsPollingWhilePending(status, elapsed, timeoutMs) == status.status = "pending"

\* A variant whose loop never polls again.
keepsPollingNever(status, elapsed, timeoutMs) == FALSE

\* The loop condition of waitForCompletion for a record `status` that exists:
\* `status.status === 'pending' && (Date.now() - start) < timeoutMs`.
keepsPolling(status, elapsed, timeoutMs) ==
  status.status = "pending" /\ elapsed < timeoutMs

\* A waitForCompletion invocation: suspended on the capture of a poll
\* ("poll", `check` is the checkCommandStatus it awaits), on the timer
\* ("sleep", due at `wake`), or returned ("done") with null or the record.
WaitFrame(commandId, timeoutMs, intervalMs, start) ==
  [commandId |-> commandId, timeoutMs |-> timeoutMs, intervalMs |-> intervalMs,
   start |-> start, pc |-> "poll", check |-> 0, wake |-> 0, result |-> "none"]

\* A variant whose loop also runs while the lookup misses.
WaitCheckRetriesUnknown(fr) ==
  IF fr.commandId \notin activeCommands
  THEN [fr EXCEPT !.pc = "sleep", !.wake = now + fr.intervalMs]
  ELSE IF commandObjects[fr.commandId].status # "pending"
  THEN [fr EXCEPT !.pc = "done", !.result = "record"]
  ELSE [fr EXCEPT !.pc = "poll", !.check = Len(checks) + 1]

\* `status = await checkCommandStatus(commandId)` when the call returns
\* without capturing (null or a terminal record), followed by the loop
\* condition; or the suspension on the capture of a pending record.
WaitCheck(fr) ==
  IF fr.commandId \notin activeCommands
  THEN [fr EXCEPT !.pc = "done", !.result = "null"]
  ELSE IF commandObjects[fr.commandId].status # "pending"
  THEN IF keepsPolling(commandObjects'[fr.commandId], now - fr.start, fr.timeoutMs)
       THEN [fr EXCEPT !.pc = "sleep", !.wake = now + fr.intervalMs]
       ELSE [fr EXCEPT !.pc = "done", !.result = "record"]
  ELSE [fr EXCEPT !.pc = "poll", !.check = Len(checks) + 1]

\* waitForCompletion(commandId, timeoutMs, intervalMs) up to its return or
\* its first suspension.  One caller waits in a run.
WaitForCompletion(commandId, timeoutMs, intervalMs) ==
  /\ waits = <<>>
  /\ checkCommandStatus(commandId, NoOptions)
  /\ waits' = Append(waits, WaitCheck(WaitFrame(commandId, timeoutMs, intervalMs, now)))
  /\ UNCHANGED <<now, returned>>

\* The capture of a poll ends: checkCommandStatus continues and returns the
\* record, and the loop condition is evaluated in the same turn.
WaitPoll(w) ==
  /\ w \in DOMAIN waits
  /\ waits[w].pc = "poll"
  /\ checkResume(waits[w].check)
  /\ LET fr == waits[w]
     IN  waits' = [waits EXCEPT ![w] =
           IF keepsPolling(commandObjects'[fr.commandId], now - fr.start, fr.timeoutMs)
           THEN [fr EXCEPT !.pc = "sleep", !.wake = now + fr.intervalMs]
           ELSE [fr EXCEPT !.pc = "done", !.result = "record"]]
  /\ UNCHANGED <<now, returned>>

\* The timer of `setTimeout(r, intervalMs)` fires and the loop polls again.
WaitWake(w) ==
  /\ w \in DOMAIN waits
  /\ waits[w].pc = "sleep"
  /\ now >= waits[w].wake
  /\ microQ = <<>>
  /\ checkCommandStatus(waits[w].commandId, NoOptions)
  /\ waits' = [waits EXCEPT ![w] = WaitCheck(waits[w])]
  /\ UNCHANGED <<now, returned>>

\* ------------------------------------------------------------ specification

\* The steps of the executeCommand invocations in flight.
DispatchSteps ==
  \/ \E id \in DOMAIN calls : EnsureReturn(id)
  \/ \E id \in DOMAIN calls : ExecuteContinue(id)
  \/ \E id \in DOMAIN calls : SendReturn(id)

Requests ==
  {[command |-> "echo a", rawMode |-> FALSE],
   [command |-> "false", rawMode |-> FALSE],
   [command |-> "echo a", rawMode |-> TRUE]}

\* Lifecycle of commands on pane %0: dispatch, the shell, the history limit,
\* status checks.  The pane is a bash pane unless the run starts with
\* setShellConfig({type: 'tclsh', paneId: '%0'}) (TclshPane).
InitLifecycle(nCalls) ==
  /\ InitProgram
  /\ \E h \in {ShortHistory, LongHistory} : run = Budget(nCalls, MaxChecks, 0, h)

TclshPane ==
  /\ calls = <<>>
  /\ shellConfig.paneOverrides = NoOverrides
  /\ setShellConfig("tclsh", Some("%0"))
  /\ UNCHANGED <<wrappedCommandSequenceCounter, registryVars, calls, microQ, checks,
                 sendLog, paneVars, run, apiVars>>

Next ==
  \/ TclshPane
  \/ \E r \in Requests : ExecuteCommand("%0", r.command, r.rawMode)
  \/ \E id \in DOMAIN calls : EnsureReturn(id)
  \/ \E id \in DOMAIN calls : ExecuteContinue(id)
  \/ ShellRead("%0")
  \/ ShellPrint("%0")
  \/ ShellFinish("%0")
  \/ \E id \in (DOMAIN calls) \cup {0} : CheckCommandStatus(id, NoOptions)
  \/ \E c \in DOMAIN checks : CheckResume(c)

Init == InitLifecycle(MaxCalls)

Spec == Init /\ [][Next]_vars

InitRace == InitLifecycle(MaxRaceCalls)

SpecRace == InitRace /\ [][Next]_vars

\* Dispatch alone, on both panes and with the shell configuration changing.
InitDispatch ==
  /\ InitProgram
  /\ run = Budget(MaxDispatches, 0, MaxConfigs, LongHistory)

NextDispatch ==
  \/ \E type \in {"bash", "tclsh"}, paneId \in {None} \cup {Some(p) : p \in Panes} :
       SetShellConfig(type, paneId)
  \/ \E paneId \in Panes, r \in Requests : ExecuteCommand(paneId, r.command, r.rawMode)
  \/ DispatchSteps

SpecDispatch == InitDispatch /\ [][NextDispatch]_vars

\* Status queries against arbitrary pane contents.  Two commands were
\* dispatched to the bash pane %0, one after the other, and both calls have
\* returned; the pane shows any short sequence of marker and text lines, or
\* the start marker of the first command followed by many output lines and,
\* when the command has ended, its end marker.  One query captures the pane.
MaxSnapLen == 4
MaxLines == 150

ScanCommand == "ls"

Alphabet ==
  {StartMarker(1, 0), StartMarker(2, 0), EndMarker(1, 1, 0), EndMarker(0, 2, 0),
   Text("x", 0, 0), Text(ScanCommand, 0, 0), Text("", 0, 0)}

ShortSnapshots == UNION {[1..n -> Alphabet] : n \in 0..MaxSnapLen}

LongSnapshot(T, ended) ==
  <<StartMarker(1, 0)>> \o [i \in 1..T |-> Text("line", i - 1, 0)]
    \o (IF ended THEN <<EndMarker(0, 1, 0)>> ELSE <<>>)

LongSnapshots == {LongSnapshot(T, ended) : T \in 0..MaxLines, ended \in BOOLEAN}

ScanOptions ==
  {NoOptions, SliceOptions(Some(2), None, None), SliceOptions(None, Some(1), Some(1))}

Returned(paneId, command, sequenceNumber) ==
  [pc |-> "done", paneId |-> paneId, command |-> command, rawMode |-> FALSE,
   shellType |-> "bash", sequenceNumber |-> sequenceNumber]

InitScan ==
  /\ now = 0
  /\ waits = <<>>
  /\ returned = None
  /\ shellConfig = [defaultType |-> "bash", paneOverrides |-> NoOverrides]
  /\ tclshInitializedPanes = {}
  /\ wrappedCommandSequenceCounter = 2
  /\ activeCommands = {1, 2}
  /\ commandObjects = [id \in {1, 2} |-> NewCommand(id, "%0", ScanCommand, FALSE, id)]
  /\ calls = [id \in {1, 2} |-> Returned("%0", ScanCommand, id)]
  /\ microQ = <<>>
  /\ checks = <<>>
  /\ sendLog = [id \in {1, 2} |-> SendKeys("%0", "cmd", "bash", id, id)]
  /\ \E snapshot \in ShortSnapshots \cup LongSnapshots :
       paneLines = [p \in Panes |-> IF p = "%0" THEN snapshot ELSE <<>>]
  /\ shell = [p \in Panes |-> Idle(IF p = "%0" THEN 2 ELSE 0)]
  /\ run = Budget(0, 1, 0, MaxLines + MaxSnapLen + 2)

NextScan ==
  \/ \E id \in {0, 1, 2}, options \in ScanOptions : CheckCommandStatus(id, options)
  \/ \E c \in DOMAIN checks : CheckResume(c)

SpecScan == InitScan /\ [][NextScan]_vars

\* Slicing of a cached output.  One command was dispatched to the bash pane
\* %0 and the call has returned; the pane shows its start marker, the echoed
\* command text or not, T output lines and its end marker.  A status query
\* resolves the record; status queries and getCommandOutput calls with any
\* slicing options follow.
MaxOutLines == 3
MaxIndex == 4
MaxLinesOption == 2

SliceSnapshot(T, echoed) ==
  <<StartMarker(1, 1)>>
    \o (IF echoed THEN <<Text(ScanCommand, 0, 1)>> ELSE <<>>)
    \o [i \in 1..T |-> Text("line", i - 1, 1)]
    \o <<EndMarker(0, 1, 1)>>

SliceRequests ==
  {SliceOptions(lines, start, end) :
     lines \in {None} \cup {Some(n) : n \in 1..MaxLinesOption},
     start \in {None} \cup {Some(n) : n \in 0..MaxIndex},
     end \in {None} \cup {Some(n) : n \in 0..MaxIndex}}

InitSlice ==
  /\ now = 0
  /\ waits = <<>>
  /\ returned = None
  /\ shellConfig = [defaultType |-> "bash", paneOverrides |-> NoOverrides]
  /\ tclshInitializedPanes = {}
  /\ wrappedCommandSequenceCounter = 1
  /\ activeCommands = {1}
  /\ commandObjects = [id \in {1} |-> NewCommand(id, "%0", ScanCommand, FALSE, id)]
  /\ calls = [id \in {1} |-> Returned("%0", ScanCommand, id)]
  /\ microQ = <<>>
  /\ checks = <<>>
  /\ sendLog = [id \in {1} |-> SendKeys("%0", "cmd", "bash", id, id)]
  /\ \E T \in 0..MaxOutLines, echoed \in BOOLEAN :
       paneLines = [p \in Panes |-> IF p = "%0" THEN SliceSnapshot(T, echoed) ELSE <<>>]
  /\ shell = [p \in Panes |-> Idle(IF p = "%0" THEN 1 ELSE 0)]
  /\ run = Budget(0, 1, 0, MaxOutLines + 4)

NextSlice ==
  \/ \E options \in SliceRequests : CheckCommandStatusObserved(1, options)
  \/ \E c \in DOMAIN checks : CheckResume(c)
  \/ \E options \in SliceRequests : GetCommandOutput(1, options)

SpecSlice == InitSlice /\ [][NextSlice]_vars

\* Status queries whose requests combine the three slicing options: each of
\* lines, start and end is absent or one of two values.
PrecedenceRequests ==
  {SliceOptions(lines, start, end) :
     lines \in {None, Some(1), Some(2)},
     start \in {None, Some(0), Some(1)},
     end \in {None, Some(0), Some(2)}}

NextPrecedence ==
  \/ \E options \in PrecedenceRequests : CheckCommandStatusObserved(1, options)
  \/ \E c \in DOMAIN checks : CheckResume(c)

SpecPrecedence == InitSlice /\ [][NextPrecedence]_vars

\* Echo removal.  One command, 'ls' typed with or without blanks around it,
\* was dispatched to the bash pane %0; the pane shows its start marker, up to
\* MaxEchoLen lines that repeat the command text, with or without blanks, or
\* are other output, and its end marker.  Status queries resolve the record.
MaxEchoLen == 3

EchoCommands == {"ls", Padded("ls")}

EchoAlphabet == {Text("ls", 0, 1), Text(Padded("ls"), 0, 1), Text("x", 0, 1)}

EchoBodies == UNION {[1..n -> EchoAlphabet] : n \in 0..MaxEchoLen}

InitEcho ==
  /\ now = 0
  /\ waits = <<>>
  /\ returned = None
  /\ shellConfig = [defaultType |-> "bash", paneOverrides |-> NoOverrides]
  /\ tclshInitializedPanes = {}
  /\ wrappedCommandSequenceCounter = 1
  /\ activeCommands = {1}
  /\ \E command \in EchoCommands :
       /\ commandObjects = [id \in {1} |-> NewCommand(id, "%0", command, FALSE, id)]
       /\ calls = [id \in {1} |-> Returned("%0", command, id)]
  /\ microQ = <<>>
  /\ checks = <<>>
  /\ sendLog = [id \in {1} |-> SendKeys("%0", "cmd", "bash", id, id)]
  /\ \E body \in EchoBodies :
       paneLines = [p \in Panes |->
                      IF p = "%0"
                      THEN <<StartMarker(1, 1)>> \o body \o <<EndMarker(0, 1, 1)>>
                      ELSE <<>>]
  /\ shell = [p \in Panes |-> Idle(IF p = "%0" THEN 1 ELSE 0)]
  /\ run = Budget(0, 1, 0, MaxEchoLen + 3)

NextEcho ==
  \/ CheckCommandStatus(1, NoOptions)
  \/ \E c \in DOMAIN checks : CheckResume(c)

SpecEcho == InitEcho /\ [][NextEcho]_vars

\* Grep of the same record, before and after a status query has resolved it,
\* through grepCommandOutput and through the grep-command-output tool.
NextGrep ==
  \/ \E id \in {0, 1} : CheckCommandStatusObserved(id, NoOptions)
  \/ \E c \in DOMAIN checks : CheckResume(c)
  \/ \E id \in {0, 1}, pattern \in GrepPatterns, flags \in GrepFlags :
       GrepCommandOutput(id, pattern, flags)
  \/ \E id \in {0, 1}, pattern \in GrepPatterns, flags \in GrepFlags, limit \in {None, Some(1)} :
       GrepCommandOutputTool(id, pattern, flags, limit)

SpecGrep == InitSlice /\ [][NextGrep]_vars

\* Dispatch to pane %0 when send-keys may fail.
InitFail ==
  /\ InitProgram
  /\ run = Budget(MaxDispatches, 0, 0, LongHistory)

NextFail ==
  \/ TclshPane
  \/ \E r \in Requests : ExecuteCommand("%0", r.command, r.rawMode)
  \/ \E id \in DOMAIN calls : EnsureReturn(id)
  \/ \E id \in DOMAIN calls : EnsureFail(id)
  \/ \E id \in DOMAIN calls : ExecuteContinue(id)
  \/ \E id \in DOMAIN calls : SendReturn(id)
  \/ \E id \in DOMAIN calls : SendFail(id)

SpecFail == InitFail /\ [][NextFail]_vars


\* Waiting for a command.  executeCommand('%0', 'echo a') has returned on the
\* bash pane %0 and the shell has not read the keys yet; the shell runs the
\* command while callers wait for its id or for an unknown id, other callers
\* query the status, and the clock advances.
MaxTime == 3
MaxPolls == 2

WaitTimeouts == {0, 2}

WaitIntervals == {1, 2}

InitWait ==
  /\ now = 0
  /\ waits = <<>>
  /\ returned = None
  /\ shellConfig = [defaultType |-> "bash", paneOverrides |-> NoOverrides]
  /\ tclshInitializedPanes = {}
  /\ wrappedCommandSequenceCounter = 1
  /\ activeCommands = {1}
  /\ commandObjects = [id \in {1} |-> NewCommand(id, "%0", "echo a", FALSE, id)]
  /\ calls = [id \in {1} |-> Returned("%0", "echo a", id)]
  /\ microQ = <<>>
  /\ checks = <<>>
  /\ sendLog = [id \in {1} |-> SendKeys("%0", "cmd", "bash", id, id)]
  /\ paneLines = [p \in Panes |-> <<>>]
  /\ shell = [p \in Panes |-> Idle(0)]
  /\ run = Budget(0, MaxPolls, 0, LongHistory)

NextWait ==
  \/ ShellRead("%0")
  \/ ShellPrint("%0")
  \/ ShellFinish("%0")
  \/ Tick(1, MaxTime)
  \/ \E id \in {0, 1} : CheckCommandStatusObserved(id, NoOptions)
  \/ \E c \in DOMAIN checks : CheckResume(c)
  \/ \E id \in {0, 1}, timeoutMs \in WaitTimeouts, intervalMs \in WaitIntervals :
       WaitForCompletion(id, timeoutMs, intervalMs)
  \/ \E w \in DOMAIN waits : WaitPoll(w)
  \/ \E w \in DOMAIN waits : WaitWake(w)

SpecWait == InitWait /\ [][NextWait]_vars

\* One caller waits for a record that stays pending: a raw record, or a
\* wrapped command whose end marker is not in the pane (the pane is empty or
\* shows the start marker and a line of output).  The caller waits from time
\* 0 on; every capture returns, the clock advances and the timers fire.
WaitLiveSnapshots == {<<>>, <<StartMarker(1, 1), Text("a", 0, 1)>>}

InitWaitLive ==
  /\ now = 0
  /\ waits = <<>>
  /\ returned = None
  /\ shellConfig = [defaultType |-> "bash", paneOverrides |-> NoOverrides]
  /\ tclshInitializedPanes = {}
  /\ \E rawMode \in BOOLEAN :
       LET sequenceNumber == IF rawMode THEN Undefined ELSE 1
       IN  /\ wrappedCommandSequenceCounter = IF rawMode THEN 0 ELSE 1
           /\ commandObjects =
                [id \in {1} |-> NewCommand(id, "%0", "echo a", rawMode, sequenceNumber)]
           /\ calls = [id \in {1} |->
                         [Returned("%0", "echo a", sequenceNumber) EXCEPT !.rawMode = rawMode]]
           /\ sendLog = [id \in {1} |->
                           SendKeys("%0", IF rawMode THEN "raw" ELSE "cmd", "bash",
                                    sequenceNumber, id)]
  /\ activeCommands = {1}
  /\ microQ = <<>>
  /\ checks = <<>>
  /\ \E snapshot \in WaitLiveSnapshots :
       paneLines = [p \in Panes |-> IF p = "%0" THEN snapshot ELSE <<>>]
  /\ shell = [p \in Panes |-> Idle(IF p = "%0" THEN 1 ELSE 0)]
  /\ run = Budget(0, MaxPolls + 1, 0, LongHistory)

NextWaitLive ==
  \/ Tick(1, MaxTime)
  \/ \E id \in {0, 1}, timeoutMs \in WaitTimeouts, intervalMs \in WaitIntervals :
       now = 0 /\ WaitForCompletion(id, timeoutMs, intervalMs)
  \/ \E w \in DOMAIN waits : WaitPoll(w)
  \/ \E w \in DOMAIN waits : WaitWake(w)

SpecWaitLive ==
  /\ InitWaitLive
  /\ [][NextWaitLive]_vars
  /\ WF_vars(Tick(1, MaxTime))
  /\ WF_vars(WaitPoll(1))
  /\ WF_vars(WaitWake(1))


\* Cleanup of the registry.  'echo a' and, up to a minute later, 'false' were
\* dispatched to the bash pane %0 and both calls have returned; the pane shows
\* the blocks of both, of the first, or nothing yet.  Status queries resolve
\* the records, the clock advances by half minutes and cleanupOldCommands is
\* called with a maximal age of no or one minute.
MaxMinutes == 2

CleanupAges == {0, 1}

HalfMinute == MsPerMinute \div 2

CleanupSnapshots ==
  LET first == <<StartMarker(1, 1), Text("a", 0, 1), EndMarker(0, 1, 1)>>
      second == <<StartMarker(2, 2), EndMarker(1, 2, 2)>>
  IN  {<<>>, first, first \o second}

CleanupCommand(id) == IF id = 1 THEN "echo a" ELSE "false"

InitCleanup ==
  /\ \E late \in {0, HalfMinute, MsPerMinute} :
       /\ now = late
       /\ commandObjects =
            [id \in {1, 2} |->
               [NewCommand(id, "%0", CleanupCommand(id), FALSE, id)
                  EXCEPT !.startTime = IF id = 1 THEN 0 ELSE late]]
  /\ waits = <<>>
  /\ returned = None
  /\ shellConfig = [defaultType |-> "bash", paneOverrides |-> NoOverrides]
  /\ tclshInitializedPanes = {}
  /\ wrappedCommandSequenceCounter = 2
  /\ activeCommands = {1, 2}
  /\ calls = [id \in {1, 2} |-> Returned("%0", CleanupCommand(id), id)]
  /\ microQ = <<>>
  /\ checks = <<>>
  /\ sendLog = [id \in {1, 2} |-> SendKeys("%0", "cmd", "bash", id, id)]
  /\ \E snapshot \in CleanupSnapshots :
       paneLines = [p \in Panes |-> IF p = "%0" THEN snapshot ELSE <<>>]
  /\ shell = [p \in Panes |-> Idle(IF p = "%0" THEN 2 ELSE 0)]
  /\ run = Budget(0, MaxChecks, 0, LongHistory)

NextCleanup ==
  \/ Tick(HalfMinute, MaxMinutes * MsPerMinute)
  \/ \E id \in {1, 2} : CheckCommandStatus(id, NoOptions)
  \/ \E c \in DOMAIN checks : CheckResume(c)
  \/ \E maxAgeMinutes \in CleanupAges : CleanupOldCommands(maxAgeMinutes)

SpecCleanup == InitCleanup /\ [][NextCleanup]_vars


\* The shell configuration changing while non-raw commands are dispatched to
\* both panes: defaults and overrides of fish, of tclsh and of a string that
\* names no supported dialect.  bash is the dialect the process starts with;
\* no call asks for it by name.
MaxSwitches == 2
MaxSwitchCalls == 2

ConfigTypes == {"fish", "tclsh", "powershell"}

InitConfig ==
  /\ InitProgram
  /\ run = Budget(MaxSwitchCalls, 0, MaxSwitches, LongHistory)

NextConfig ==
  \/ \E type \in ConfigTypes, paneId \in {None} \cup {Some(p) : p \in Panes} :
       SetShellConfig(type, paneId)
  \/ \E paneId \in Panes : ExecuteCommand(paneId, "echo a", FALSE)
  \/ \E id \in DOMAIN calls : EnsureReturn(id)
  \/ \E id \in DOMAIN calls : ExecuteContinue(id)
  \/ \E id \in DOMAIN calls : SendReturn(id)

SpecConfig == InitConfig /\ [][NextConfig]_vars

\* The same with one dispatch and one more change of the configuration.
InitReinstall ==
  /\ InitProgram
  /\ run = Budget(1, 0, MaxSwitches + 1, LongHistory)

SpecReinstall == InitReinstall /\ [][NextConfig]_vars


\* Dispatch one after another: every executeCommand call is awaited before
\* the next call or configuration change is made.
Awaited == \A c \in DOMAIN calls : calls[c].pc = "done"

InitSequence ==
  /\ InitProgram
  /\ run = Budget(MaxDispatches, 0, MaxConfigs, LongHistory)

NextSequence ==
  \/ \E type \in {"fish", "tclsh"}, paneId \in {None} \cup {Some(p) : p \in Panes} :
       Awaited /\ SetShellConfig(type, paneId)
  \/ \E paneId \in Panes, r \in Requests :
       Awaited /\ ExecuteCommand(paneId, r.command, r.rawMode)
  \/ \E id \in DOMAIN calls : EnsureReturn(id)
  \/ \E id \in DOMAIN calls : ExecuteContinue(id)
  \/ \E id \in DOMAIN calls : SendReturn(id)

SpecSequence == InitSequence /\ [][NextSequence]_vars


\* Wrapped commands of the three POSIX-like dialects: the default dialect and
\* the overrides change between awaited dispatches of non-raw commands.
WrapTypes == {"bash", "zsh", "fish"}

WrapCommands == {"echo a", "false"}

InitWrap ==
  /\ InitProgram
  /\ run = Budget(MaxDispatches, 0, MaxSwitches, LongHistory)

NextWrap ==
  \/ \E type \in WrapTypes, paneId \in {None} \cup {Some(p) : p \in Panes} :
       Awaited /\ SetShellConfig(type, paneId)
  \/ \E paneId \in Panes, command \in WrapCommands :
       Awaited /\ ExecuteCommand(paneId, command, FALSE)
  \/ \E id \in DOMAIN calls : SendReturn(id)

SpecWrap == InitWrap /\ [][NextWrap]_vars


\* A capture of pane %0, with every combination of the options, after the
\* pane has printed up to MaxBufferLines lines.
MaxBufferLines == 3
MaxOffset == 4
MaxCaptureLines == 4

BufferLine(i) == Text("line", i, 0)

OffsetValues ==
  {JsNumber(n) : n \in -MaxOffset..MaxOffset} \cup {JsNumericString(0), JsDash}

AllCaptureOptions ==
  {CaptureOptions(lines, start, end) :
     lines \in {None} \cup {Some(n) : n \in 0..MaxCaptureLines},
     start \in {None} \cup {Some(v) : v \in OffsetValues},
     end \in {None} \cup {Some(v) : v \in OffsetValues}}

InitCapture ==
  /\ InitProgram
  /\ run = Budget(0, 0, 0, LongHistory)

PaneGrows ==
  /\ returned = None
  /\ Len(paneLines["%0"]) < MaxBufferLines
  /\ paneLines' = [paneLines EXCEPT !["%0"] = Append(@, BufferLine(Len(@)))]
  /\ UNCHANGED <<configVars, wrappedCommandSequenceCounter, registryVars, calls, microQ,
                 checks, sendLog, shell, run, apiVars>>

NextCapture ==
  \/ PaneGrows
  \/ \E options \in AllCaptureOptions :
       returned = None /\ CapturePaneContent("%0", options)

SpecCapture == InitCapture /\ [][NextCapture]_vars


\* A raw command.  The pane %0 shows lines that look like the markers of
\* sequence numbers 1 and 2, as an interactive program may print them; a raw
\* command is sent to it, and callers query its status and wait for it while
\* the clock advances.
RawSnapshots ==
  {<<>>,
   <<EndMarker(0, 1, 0)>>,
   <<StartMarker(1, 0), Text("x", 0, 0), EndMarker(0, 1, 0)>>,
   <<StartMarker(2, 0), EndMarker(1, 2, 0), Text("x", 0, 0)>>}

InitRaw ==
  /\ now = 0
  /\ waits = <<>>
  /\ returned = None
  /\ shellConfig = [defaultType |-> "bash", paneOverrides |-> NoOverrides]
  /\ tclshInitializedPanes = {}
  /\ wrappedCommandSequenceCounter = 0
  /\ activeCommands = {}
  /\ commandObjects = <<>>
  /\ calls = <<>>
  /\ microQ = <<>>
  /\ checks = <<>>
  /\ sendLog = <<>>
  /\ \E snapshot \in RawSnapshots :
       paneLines = [p \in Panes |-> IF p = "%0" THEN snapshot ELSE <<>>]
  /\ shell = [p \in Panes |-> Idle(0)]
  /\ run = Budget(1, MaxPolls, 0, LongHistory)

NextRaw ==
  \/ ExecuteCommand("%0", "echo a", TRUE)
  \/ \E id \in DOMAIN calls : SendReturn(id)
  \/ Tick(1, MaxTime)
  \/ \E id \in DOMAIN calls : CheckCommandStatusObserved(id, NoOptions)
  \/ \E c \in DOMAIN checks : CheckResume(c)
  \/ \E id \in DOMAIN calls, timeoutMs \in WaitTimeouts, intervalMs \in WaitIntervals :
       calls[id].pc = "done" /\ WaitForCompletion(id, timeoutMs, intervalMs)
  \/ \E w \in DOMAIN waits : WaitPoll(w)
  \/ \E w \in DOMAIN waits : WaitWake(w)

SpecRaw == InitRaw /\ [][NextRaw]_vars


\* Round trip of one command that prints one line, on pane %0 as a bash pane
\* or as a tclsh pane, under either history limit.  One caller polls: each
\* status query is awaited before the next is made.
RoundTripCommands == {"echo a", "x"}

Polled == \A c \in DOMAIN checks : checks[c].pc = "done"

InitRoundTrip ==
  /\ InitProgram
  /\ \E h \in {ShortHistory, LongHistory} : run = Budget(1, MaxChecks, 0, h)

NextRoundTrip ==
  \/ TclshPane
  \/ \E command \in RoundTripCommands : ExecuteCommand("%0", command, FALSE)
  \/ \E id \in DOMAIN calls : EnsureReturn(id)
  \/ \E id \in DOMAIN calls : ExecuteContinue(id)
  \/ \E id \in DOMAIN calls : SendReturn(id)
  \/ ShellRead("%0")
  \/ ShellPrint("%0")
  \/ ShellFinish("%0")
  \/ \E id \in DOMAIN calls : Polled /\ CheckCommandStatus(id, NoOptions)
  \/ \E c \in DOMAIN checks : CheckResume(c)

SpecRoundTrip == InitRoundTrip /\ [][NextRoundTrip]_vars


\* ---- the keys executeCommand sends (lines 976-995)

\* const specialKeys
specialKeys ==
  {"Up", "Down", "Left", "Right", "Escape", "Tab", "Enter", "Space",
   "BSpace", "Delete", "Home", "End", "PageUp", "PageDown",
   "F1", "F2", "F3", "F4", "F5", "F6", "F7", "F8", "F9", "F10", "F11", "F12"}

\* A text is the sequence of its characters, as `for (const char of text)`
\* walks it; Str is the string they spell.
RECURSIVE Str(_)
Str(chars) == IF chars = <<>> THEN "" ELSE Head(chars) \o Str(Tail(chars))

\* A variant that leaves the quotes as they are.
EscapeQuoteNot(chars) == chars

\* text.replace(/'/g, "'\\''"): every quote becomes the four characters '\''
RECURSIVE EscapeQuote(_)
EscapeQuote(chars) ==
  IF chars = <<>> THEN <<>>
  ELSE (IF Head(chars) = "'" THEN <<"'", "\\", "'", "'">> ELSE <<Head(chars)>>)
         \o EscapeQuote(Tail(chars))

\* The words /bin/sh makes of a command line for exec: blanks separate words,
\* a quote starts and ends a stretch taken literally, a backslash outside
\* quotes makes the next character literal.  A line whose last quote is not
\* closed is a syntax error: nothing runs.  (The only text executeCommand
\* puts on the line without quotes is a key name of specialKeys.)
RECURSIVE ShellWordsFrom(_, _, _, _, _)
ShellWordsFrom(line, i, quoted, word, words) ==
  IF i > Len(line)
  THEN IF quoted THEN <<>>
       ELSE IF word = None THEN words ELSE Append(words, word[1])
  ELSE LET a == line[i]
           grown == Some((IF word = None THEN "" ELSE word[1]) \o a)
           begun == IF word = None THEN Some("") ELSE word
       IN  IF quoted
           THEN IF a = "'" THEN ShellWordsFrom(line, i + 1, FALSE, word, words)
                ELSE ShellWordsFrom(line, i + 1, TRUE, grown, words)
           ELSE IF a = " "
                THEN ShellWordsFrom(line, i + 1, FALSE, None,
                                    IF word = None THEN words ELSE Append(words, word[1]))
                ELSE IF a = "'" THEN ShellWordsFrom(line, i + 1, TRUE, begun, words)
                ELSE IF a = "\\" /\ i < Len(line)
                THEN ShellWordsFrom(line, i + 2, FALSE,
                       Some((IF word = None THEN "" ELSE word[1]) \o line[i + 1]), words)
                ELSE ShellWordsFrom(line, i + 1, FALSE, grown, words)

ShellWords(line) == ShellWordsFrom(line, 1, FALSE, None, <<>>)

\* executeTmux(tmuxCommand): exec(`tmux ${tmuxCommand}`), the argument vector
\* the tmux process is started with.
executeTmuxArgv(tmuxCommand) == ShellWords(<<"tmux", " ">> \o tmuxCommand)

\* `send-keys -t '${paneId}' ${fullCommand}` (line 985)
SendSpecialKey(paneId, text) ==
  <<"send-keys", " ", "-t", " ", "'", paneId, "'", " ">> \o text

\* `send-keys -t '${paneId}' '${char.replace(/'/g, "'\\''")}'` (line 990)
SendChar(paneId, char) ==
  <<"send-keys", " ", "-t", " ", "'", paneId, "'", " ", "'">>
    \o EscapeQuote(<<char>>) \o <<"'">>

\* `send-keys -t '${paneId}' '${fullCommand.replace(/'/g, "'\\''")}' Enter`
\* (line 994)
SendWithEnter(paneId, text) ==
  <<"send-keys", " ", "-t", " ", "'", paneId, "'", " ", "'">>
    \o EscapeQuote(text) \o <<"'", " ", "Enter">>

\* An invocation of send-keys by call `call`, with the arguments tmux gets.
KeysSent(paneId, call, tmuxCommand) ==
  [paneId |-> paneId, kind |-> "keys", call |-> call,
   argv |-> executeTmuxArgv(tmuxCommand)]

\* fullCommand as characters (lines 947-957).  A wrapped command is one
\* stretch of text around the command; the wrappers hold no single quote.
fullCommandChars(chars, rawMode, noEnter, shellType, sequenceNumber) ==
  IF rawMode \/ noEnter THEN chars
  ELSE <<buildWrappedCommand(Str(chars), shellType, sequenceNumber)>>

\* executeCommand(paneId, command, rawMode, noEnter) in a pane of a wrapped
\* dialect, up to its first suspension: the record is stored and the first
\* send-keys is invoked.  A noEnter call with an empty text sends nothing and
\* returns.
ExecuteCommandKeys(paneId, chars, rawMode, noEnter) ==
  /\ run.calls > 0
  /\ run' = [run EXCEPT !.calls = @ - 1]
  /\ LET id == Len(calls) + 1
         shellType == resolveShellType(paneId)
         sequenceNumber == IF ~rawMode /\ ~noEnter
                           THEN wrappedCommandSequenceCounter + 1 ELSE Undefined
         text == fullCommandChars(chars, rawMode, noEnter, shellType, sequenceNumber)
         fr == [pc |-> "send", paneId |-> paneId, command |-> Str(chars),
                rawMode |-> rawMode, noEnter |-> noEnter, shellType |-> shellType,
                sequenceNumber |-> sequenceNumber, chars |-> chars, rest |-> <<>>]
     IN  /\ wrappedCommandSequenceCounter' =
              IF sequenceNumber # Undefined /\ sequenceNumber # 0
              THEN sequenceNumber ELSE wrappedCommandSequenceCounter
         /\ commandObjects' = Put(commandObjects, id,
              NewCommand(id, paneId, Str(chars), rawMode \/ noEnter, sequenceNumber))
         /\ activeCommands' = activeCommands \cup {id}
         /\ IF ~noEnter
            THEN /\ calls' = Append(calls, fr)
                 /\ sendLog' = Append(sendLog,
                      KeysSent(paneId, id, SendWithEnter(paneId, text)))
            ELSE IF Str(text) \in specialKeys
            THEN /\ calls' = Append(calls, fr)
                 /\ sendLog' = Append(sendLog,
                      KeysSent(paneId, id, SendSpecialKey(paneId, text)))
            ELSE IF text = <<>>
            THEN /\ calls' = Append(calls, [fr EXCEPT !.pc = "done"])
                 /\ UNCHANGED sendLog
            ELSE /\ calls' = Append(calls, [fr EXCEPT !.pc = "keys", !.rest = Tail(text)])
                 /\ sendLog' = Append(sendLog,
                      KeysSent(paneId, id, SendChar(paneId, Head(text))))
  /\ UNCHANGED <<configVars, microQ, checks, paneVars, apiVars>>

\* The send-keys of one character returns and the loop of lines 989-991 goes
\* on: the next character is sent, or executeCommand returns the command id.
KeyReturn(id) ==
  /\ id \in DOMAIN calls
  /\ calls[id].pc = "keys"
  /\ IF calls[id].rest = <<>>
     THEN /\ calls' = [calls EXCEPT ![id].pc = "done"]
          /\ UNCHANGED sendLog
     ELSE /\ calls' = [calls EXCEPT ![id].rest = Tail(@)]
          /\ sendLog' = Append(sendLog,
               KeysSent(calls[id].paneId, id,
                        SendChar(calls[id].paneId, Head(calls[id].rest))))
  /\ UNCHANGED <<configVars, wrappedCommandSequenceCounter, registryVars, microQ, checks,
                 paneVars, run, apiVars>>

\* The texts of the calls: named keys, a text that differs from a named key
\* in case only, a text with a quote, the empty text.
MaxKeyCalls == 2

KeyTexts ==
  {<<"U", "p">>, <<"E", "n", "t", "e", "r">>, <<"u", "p">>, <<"'", "s">>, <<>>}

InitKeys ==
  /\ InitProgram
  /\ run = Budget(MaxKeyCalls, 0, 0, LongHistory)

NextKeys ==
  \/ \E chars \in KeyTexts, rawMode \in BOOLEAN, noEnter \in BOOLEAN :
       ExecuteCommandKeys("%0", chars, rawMode, noEnter)
  \/ \E id \in DOMAIN calls : KeyReturn(id)
  \/ \E id \in DOMAIN calls : SendReturn(id)

SpecKeys == InitKeys /\ [][NextKeys]_vars


\* -------------------------------------------------------------- properties

NonRaw(id) == ~calls[id].rawMode

\* C1: when every call so far went to one pane, the sequence numbers recorded
\* for its non-raw commands are pairwise distinct and consecutive in dispatch
\* order: a later record carries the number of an earlier one plus the number
\* of non-raw dispatches made after the earlier one, up to and including it.
C1_SequenceNumbersGapFree ==
  \A p \in Panes :
    (\A c \in DOMAIN calls : calls[c].paneId = p)
      => \A i, j \in DOMAIN commandObjects :
           (i < j /\ NonRaw(i) /\ NonRaw(j))
             => commandObjects[j].sequenceNumber =
                  commandObjects[i].sequenceNumber
                    + Cardinality({c \in (i + 1)..j : NonRaw(c)})

\* C2: no wrapped text carrying a higher sequence number is sent to a pane
\* before a wrapped text carrying a lower sequence number for the same pane.
C2_SendsInAllocationOrder ==
  \A a, b \in DOMAIN sendLog :
    (a < b /\ sendLog[a].kind = "cmd" /\ sendLog[b].kind = "cmd"
       /\ sendLog[a].paneId = sendLog[b].paneId)
      => sendLog[a].seq <= sendLog[b].seq

\* C3: once a record is terminal no step changes its status, its exit code,
\* its start-marker-lost flag or its cached output lines.
Terminal(command) == command.status # "pending"

C3_TerminalRecordsFrozen ==
  [][\A id \in DOMAIN commandObjects :
       Terminal(commandObjects[id])
         => /\ commandObjects'[id].status = commandObjects[id].status
            /\ commandObjects'[id].exitCode = commandObjects[id].exitCode
            /\ commandObjects'[id].markerStartLost = commandObjects[id].markerStartLost
            /\ commandObjects'[id].outputLines = commandObjects[id].outputLines]_vars

\* The lines the command of call id prints, as the pane shows them.
OwnOutput(id) ==
  [i \in 1..Len(CmdOutput(calls[id].command)) |->
     Text(CmdOutput(calls[id].command)[i], 0, id)]

\* C5: when at least two commands, all non-raw, were dispatched to the pane
\* before any status query and the pane lost no line, every terminal record of
\* a command that exits 0 is completed, and the cached output of every
\* terminal record holds each line its own command printed and no line that
\* stems from another command.
C5_BackToBackOwnOutput ==
  (/\ Len(calls) >= 2
   /\ \A c \in DOMAIN calls : NonRaw(c)
   /\ ~run.polledBeforeDispatch
   /\ ~run.evicted)
    => \A id \in DOMAIN commandObjects :
         Terminal(commandObjects[id])
           => /\ CmdExit(commandObjects[id].command) = 0
                   => commandObjects[id].status = "completed"
              /\ \A i \in DOMAIN OwnOutput(id) :
                   \E j \in DOMAIN commandObjects[id].outputLines[1] :
                     commandObjects[id].outputLines[1][j] = OwnOutput(id)[i]
              /\ \A j \in DOMAIN commandObjects[id].outputLines[1] :
                   commandObjects[id].outputLines[1][j].src = id

\* ---- status queries on given snapshots

\* Check c resumes with the snapshot it captured and returns.
Resumes(c) == checks[c].pc = "resume" /\ checks'[c].pc = "done"

\* The record check c is about has a sequence number and is still pending.
ResolvesPending(c) ==
  /\ Resumes(c)
  /\ ~commandObjects[checks[c].commandId].rawMode
  /\ commandObjects[checks[c].commandId].sequenceNumber # Undefined
  /\ ~Terminal(commandObjects[checks[c].commandId])

\* Positions (1-based) of the marker lines of sequence number n in a snapshot.
StartsOf(snap, n) == {i \in DOMAIN snap : snap[i].k = "start" /\ snap[i].seq = n}
EndsOf(snap, n) == {i \in DOMAIN snap : snap[i].k = "end" /\ snap[i].seq = n}
TheOne(S) == CHOOSE i \in S : TRUE
Highest(S) == CHOOSE i \in S : \A j \in S : j <= i
Lowest(S) == CHOOSE i \in S : \A j \in S : i <= j

\* The lines without their first one when that is the echoed command text.
WithoutEcho(between, commandText) ==
  IF between # <<>> /\ between[1].k = "text" /\ between[1].txt = commandText
  THEN SubSeq(between, 2, Len(between))
  ELSE between

\* C4: when the snapshot holds one start marker of sequence number n, followed
\* by one end marker of n, among any other lines and markers of other
\* sequence numbers, resolving the pending record of n sets its exit code to
\* the one of that end marker and its cached output to the lines strictly
\* between the two markers (less a first line that repeats the command text).
C4_PairsOwnMarkers ==
  [][\A c \in DOMAIN checks :
       LET command == commandObjects[checks[c].commandId]
           snap == checks[c].content
           n == command.sequenceNumber
           s == TheOne(StartsOf(snap, n))
           e == TheOne(EndsOf(snap, n))
       IN  (/\ ResolvesPending(c)
            /\ Cardinality(StartsOf(snap, n)) = 1
            /\ Cardinality(EndsOf(snap, n)) = 1
            /\ s < e)
             => /\ commandObjects'[command.id].exitCode = snap[e].code
                /\ commandObjects'[command.id].outputLines =
                     Some(WithoutEcho(SubSeq(snap, s + 1, e - 1), command.command))]_vars

\* A record was resolved between its own markers while a marker of another
\* sequence number stands between them.
C4_Witness ==
  \E id \in DOMAIN commandObjects :
    LET snap == capturePaneContent(paneLines[commandObjects[id].paneId])
        n == commandObjects[id].sequenceNumber
    IN  /\ Terminal(commandObjects[id])
        /\ Cardinality(StartsOf(snap, n)) = 1
        /\ Cardinality(EndsOf(snap, n)) = 1
        /\ \E i \in DOMAIN snap :
             /\ TheOne(StartsOf(snap, n)) < i
             /\ i < TheOne(EndsOf(snap, n))
             /\ snap[i].k \in {"start", "end"}
        /\ Len(commandObjects[id].outputLines[1]) >= 2

\* The lines a lost start marker leaves to the record: those after the line
\* that follows the nearest end marker above the end marker at position e, or
\* all lines above e when no end marker stands above it.
InferredOutput(snap, e) ==
  LET above == {i \in 1..(e - 1) : snap[i].k = "end"}
  IN  IF above # {} THEN SubSeq(snap, Highest(above) + 2, e - 1)
      ELSE SubSeq(snap, 1, e - 1)

\* C6: when the snapshot holds the end marker of sequence number n with exit
\* code 0 and no start marker of n, resolving the pending record of n makes it
\* completed with exit code 0, and its cached output is the lines strictly
\* between line L+1 and the end marker, L being the line of the nearest end
\* marker above, or every line above the end marker when there is none (less
\* a first line that repeats the command text).
C6_LostStartStillFinalizes ==
  [][\A c \in DOMAIN checks :
       LET command == commandObjects[checks[c].commandId]
           snap == checks[c].content
           n == command.sequenceNumber
           e == TheOne(EndsOf(snap, n))
       IN  (/\ ResolvesPending(c)
            /\ StartsOf(snap, n) = {}
            /\ Cardinality(EndsOf(snap, n)) = 1
            /\ snap[e].code = 0)
             => /\ commandObjects'[command.id].status = "completed"
                /\ commandObjects'[command.id].exitCode = 0
                /\ commandObjects'[command.id].outputLines =
                     Some(WithoutEcho(InferredOutput(snap, e), command.command))]_vars

\* The pane as a status query would capture it now.
Snapshot(paneId) == capturePaneContent(paneLines[paneId])

\* A record was completed from a snapshot without its start marker, an end
\* marker of another command standing above its own, with lines in between.
C6_Witness ==
  \E id \in DOMAIN commandObjects :
    LET snap == Snapshot(commandObjects[id].paneId)
        n == commandObjects[id].sequenceNumber
    IN  /\ commandObjects[id].status = "completed"
        /\ StartsOf(snap, n) = {}
        /\ Cardinality(EndsOf(snap, n)) = 1
        /\ \E i \in 1..(TheOne(EndsOf(snap, n)) - 1) : snap[i].k = "end"
        /\ commandObjects[id].outputLines[1] # <<>>

\* C7: for a terminal record whose end marker stands once in the snapshot it
\* was resolved from (the pane content, which no step of SpecScan changes),
\* truncated is true exactly when fewer lines are returned than are cached or
\* the snapshot holds no start marker of the record's sequence number.
C7_TruncatedIffWindowedOrInferred ==
  \A id \in DOMAIN commandObjects :
    (/\ Terminal(commandObjects[id])
     /\ Cardinality(EndsOf(Snapshot(commandObjects[id].paneId),
                           commandObjects[id].sequenceNumber)) = 1)
      => commandObjects[id].truncated =
           Some(\/ commandObjects[id].returnedLines < Len(commandObjects[id].outputLines[1])
                \/ StartsOf(Snapshot(commandObjects[id].paneId),
                            commandObjects[id].sequenceNumber) = {})

\* The preview of a snapshot: its last ten lines less the blank lines at both
\* ends, or the placeholder when nothing is left.
LastTen(snap) == SubSeq(snap, Max(1, Len(snap) - 9), Len(snap))

Inked(arr) == {i \in DOMAIN arr : ~(arr[i].k = "text" /\ arr[i].txt = "")}

PreviewOf(snap) ==
  IF Inked(LastTen(snap)) = {} THEN NoRecentOutput
  ELSE [kind |-> "text",
        lines |-> SubSeq(LastTen(snap), Lowest(Inked(LastTen(snap))),
                         Highest(Inked(LastTen(snap))))]

\* C9: when the snapshot holds no end marker of the sequence number of a
\* pending record, with or without its start marker, the status query leaves
\* the record pending, without exit code and without cached output, and sets
\* result to the preview of the last ten lines of the snapshot (the
\* placeholder "(no recent output)" when these are blank).
C9_NoEndMarkerStaysPending ==
  [][\A c \in DOMAIN checks :
       LET command == commandObjects[checks[c].commandId]
           snap == checks[c].content
       IN  (ResolvesPending(c) /\ EndsOf(snap, command.sequenceNumber) = {})
             => /\ commandObjects'[command.id].status = "pending"
                /\ commandObjects'[command.id].exitCode = Undefined
                /\ commandObjects'[command.id].outputLines = None
                /\ commandObjects'[command.id].result = Some(PreviewOf(snap))]_vars

\* A pending record shows a ten-line preview of a longer snapshot that holds
\* its start marker and no end marker of its sequence number.
C9_Witness ==
  \E id \in DOMAIN commandObjects :
    LET snap == Snapshot(commandObjects[id].paneId)
        n == commandObjects[id].sequenceNumber
    IN  /\ commandObjects[id].status = "pending"
        /\ commandObjects[id].result # None
        /\ commandObjects[id].result[1].kind = "text"
        /\ Len(commandObjects[id].result[1].lines) = TAIL_PREVIEW_LINES
        /\ Len(snap) > TAIL_PREVIEW_LINES
        /\ StartsOf(snap, n) # {}
        /\ EndsOf(snap, n) = {}

\* C10: when a pending record is resolved by a query without slicing options
\* and T lines are cached, the window is the last min(T, 100) lines:
\* returnedLines is min(T, 100), the window starts at line T - min(T, 100) and
\* ends at T, result shows those lines, and truncated is true when T > 100.
C10_DefaultWindowIsLastHundred ==
  [][\A c \in DOMAIN checks :
       LET id == checks[c].commandId
           after == commandObjects'[id]
           T == Len(after.outputLines[1])
           W == Min(T, 100)
       IN  (/\ ResolvesPending(c)
            /\ checks[c].options = NoOptions
            /\ Terminal(after))
             => /\ after.totalLines = T
                /\ after.returnedLines = W
                /\ after.lineStartIndex = T - W
                /\ after.lineEndIndex = T
                /\ after.result = Some([kind |-> "text",
                                        lines |-> JoinTrim(SubSeq(after.outputLines[1],
                                                                  T - W + 1, T))])
                /\ (T > 100 => after.truncated = Some(TRUE))]_vars

\* A record with more than 100 cached lines exposes its last 100.
C10_Witness ==
  \E id \in DOMAIN commandObjects :
    /\ Terminal(commandObjects[id])
    /\ commandObjects[id].totalLines > 100
    /\ commandObjects[id].returnedLines = 100
    /\ commandObjects[id].lineStartIndex = commandObjects[id].totalLines - 100
    /\ Len(commandObjects[id].result[1].lines) = 100
    /\ commandObjects[id].truncated = Some(TRUE)

\* C8: a completed record has exit code 0; an error record has a non-zero exit
\* code, the one reported in the end marker of a wrapped command sent with the
\* record's sequence number; a pending record has no exit code and no cached
\* output lines.
C8_StatusAgreesWithExitCode ==
  \A id \in DOMAIN commandObjects :
    LET command == commandObjects[id]
    IN  /\ command.status \in {"pending", "completed", "error"}
        /\ command.status = "completed" => command.exitCode = 0
        /\ command.status = "error"
             => /\ command.exitCode # 0
                /\ command.exitCode # Undefined
                /\ \E e \in DOMAIN sendLog :
                     /\ sendLog[e].kind = "cmd"
                     /\ sendLog[e].seq = command.sequenceNumber
                     /\ CmdExit(calls[sendLog[e].call].command) = command.exitCode
        /\ command.status = "pending"
             => command.exitCode = Undefined /\ command.outputLines = None

\* A record ended in error with the exit code of its command.
C8_Witness ==
  \E id \in DOMAIN commandObjects :
    /\ commandObjects[id].status = "error"
    /\ commandObjects[id].exitCode = CmdExit(commandObjects[id].command)
    /\ commandObjects[id].exitCode # 0

\* ---- slicing of the cached output

\* The step is a status query with options o that slices the cached output
\* of record id: the query that resolves the record, or a query that finds it
\* terminal.
SlicedBy(id, o) ==
  \/ \E c \in DOMAIN checks :
       /\ ResolvesPending(c)
       /\ checks[c].commandId = id
       /\ checks[c].options = o
       /\ Terminal(commandObjects'[id])
  \/ /\ returned' = Returns("checkCommandStatus", id, "record", <<>>)
     /\ id \in activeCommands
     /\ Terminal(commandObjects[id])
     /\ CheckCommandStatusObserved(id, o)

\* The values a request may give for `lines`.
LinesChoices == {None} \cup {Some(n) : n \in 1..MaxLinesOption}

\* C11: a status query with start = s and end = e, 0 <= s <= e < T, on a
\* cached output of T lines (the echoed command text not among them) exposes
\* the cached lines s .. e: returnedLines = e - s + 1, lineStartIndex = s,
\* lineEndIndex = e + 1, and result shows the output lines numbered s .. e.
C11_ExplicitSliceIsInclusive ==
  [][(/\ Terminal(commandObjects'[1])
      /\ \/ checks' # checks
         \/ returned' = Returns("checkCommandStatus", 1, "record", <<>>))
       => LET after == commandObjects'[1]
              T == Len(after.outputLines[1])
          IN  \A s \in 0..(T - 1) : \A e \in s..(T - 1) : \A l \in LinesChoices :
                SlicedBy(1, SliceOptions(l, Some(s), Some(e)))
                  => /\ after.returnedLines = e - s + 1
                     /\ after.lineStartIndex = s
                     /\ after.lineEndIndex = e + 1
                     /\ after.result = Some([kind |-> "text",
                                             lines |-> [k \in 1..(e - s + 1) |->
                                                          Text("line", s + k - 1, 1)]])]_vars

\* A record whose command text was echoed in the pane exposes two or more
\* lines from line 1 on, fewer than are cached.
C11_Witness ==
  /\ Terminal(commandObjects[1])
  /\ \E i \in DOMAIN paneLines["%0"] : paneLines["%0"][i] = Text(ScanCommand, 0, 1)
  /\ commandObjects[1].lineStartIndex = 1
  /\ commandObjects[1].returnedLines >= 2
  /\ commandObjects[1].lineEndIndex = commandObjects[1].returnedLines + 1
  /\ commandObjects[1].result[1].lines[1] = Text("line", 1, 1)

\* C12: the bounds recorded on a sliced record lie in the cached output,
\* 0 <= lineStartIndex <= lineEndIndex <= T for T cached lines, and the
\* window is the cached lines with index in [lineStartIndex, lineEndIndex).
C12_BoundsClampedToOutput ==
  \A id \in DOMAIN commandObjects :
    Terminal(commandObjects[id])
      => LET command == commandObjects[id]
             T == Len(command.outputLines[1])
         IN  /\ 0 <= command.lineStartIndex
             /\ command.lineStartIndex <= command.lineEndIndex
             /\ command.lineEndIndex <= T
             /\ command.returnedLines = command.lineEndIndex - command.lineStartIndex

\* C13: a status query without slicing options on a record with T cached
\* lines leaves the default window exposed: the last min(T, 100) lines.
C13_NoOptionsShowsDefaultWindow ==
  [][SlicedBy(1, NoOptions)
       => LET after == commandObjects'[1]
              T == Len(after.outputLines[1])
          IN  /\ after.returnedLines = Min(T, DEFAULT_RESULT_LINES)
              /\ after.lineStartIndex = T - Min(T, DEFAULT_RESULT_LINES)
              /\ after.lineEndIndex = T]_vars

\* C14: while the record is terminal, no step of the status queries and
\* getCommandOutput calls that follow captures a pane or changes the record's
\* status, exit code, sequence number or cached output lines, and a step in
\* which getCommandOutput returns changes nothing but the value returned.
C14_ResliceKeepsCachedOutput ==
  [][/\ Terminal(commandObjects[1])
          => /\ checks' = checks
             /\ run' = run
             /\ activeCommands' = activeCommands
             /\ commandObjects'[1].status = commandObjects[1].status
             /\ commandObjects'[1].exitCode = commandObjects[1].exitCode
             /\ commandObjects'[1].sequenceNumber = commandObjects[1].sequenceNumber
             /\ commandObjects'[1].outputLines = commandObjects[1].outputLines
     /\ (returned' # returned /\ returned' # None /\ returned'[1].op = "getCommandOutput")
          => UNCHANGED <<configVars, wrappedCommandSequenceCounter, registryVars, calls,
                         microQ, checks, sendLog, paneVars, run, now, waits>>]_vars

\* A terminal record exposes fewer lines than are cached, and getCommandOutput
\* has returned lines of it.
C14_Witness ==
  /\ Terminal(commandObjects[1])
  /\ commandObjects[1].returnedLines < commandObjects[1].totalLines
  /\ commandObjects[1].totalLines = Len(commandObjects[1].outputLines[1])
  /\ returned # None
  /\ returned[1].op = "getCommandOutput"
  /\ returned[1].kind = "text"
  /\ returned[1].lines # <<>>

\* C15: every sequence number up to the counter was carried by a wrapped text
\* that send-keys delivered or is still delivering: a dispatch whose send
\* failed has not advanced the counter.
C15_FailedSendLeavesNoGap ==
  \A n \in 1..wrappedCommandSequenceCounter :
    \E e \in DOMAIN sendLog : sendLog[e].kind = "cmd" /\ sendLog[e].seq = n

\* C16: after executeCommand has failed, the registry holds no pending record
\* of that execution (its id was never returned to the caller).
C16_FailedSendLeavesNoPendingRecord ==
  \A id \in DOMAIN calls :
    calls[id].pc = "failed"
      => ~(id \in activeCommands /\ commandObjects[id].status = "pending")

\* C17: a step of waitForCompletion for a record of the registry either
\* suspends or returns the record; it returns in the very step in which its
\* poll finds the record terminal, and when it returns a record that is still
\* pending, at least timeoutMs have passed since the call started.
C17_WaitReturnsTerminalOrTimedOut ==
  [][\A w \in DOMAIN waits' :
       LET fr == waits'[w]
           id == fr.commandId
       IN  (((w \notin DOMAIN waits) \/ waits[w] # fr) /\ id \in activeCommands')
             => /\ fr.pc \in {"poll", "sleep", "done"}
                /\ fr.pc = "done"
                     => /\ fr.result = "record"
                        /\ \/ Terminal(commandObjects'[id])
                           \/ now' - fr.start >= fr.timeoutMs
                /\ Terminal(commandObjects'[id])
                     => (fr.pc = "done" /\ fr.result = "record")]_vars

\* A wait with a positive timeout slept, polled again and returned the record
\* still pending once the timeout had elapsed.
C17_Witness ==
  \E w \in DOMAIN waits :
    /\ waits[w].pc = "done"
    /\ waits[w].result = "record"
    /\ waits[w].timeoutMs > 0
    /\ waits[w].wake > 0
    /\ waits[w].commandId \in activeCommands
    /\ commandObjects[waits[w].commandId].status = "pending"
    /\ now - waits[w].start >= waits[w].timeoutMs

\* C19: checkCommandStatus and waitForCompletion for an id that is not in the
\* registry return null in the step of the call, and that step starts no
\* capture and leaves the registry, the records and the panes unchanged.
C19_UnknownIdReturnsNull ==
  [][/\ \A w \in DOMAIN waits' :
          (w \notin DOMAIN waits /\ waits'[w].commandId \notin activeCommands)
            => /\ waits'[w].pc = "done"
               /\ waits'[w].result = "null"
               /\ UNCHANGED <<registryVars, checks, paneVars, run>>
     /\ \A id \in {0, 1} :
          (id \notin activeCommands /\ CheckCommandStatusObserved(id, NoOptions))
            => /\ returned' = Returns("checkCommandStatus", id, "null", <<>>)
               /\ UNCHANGED <<registryVars, checks, paneVars, run>>]_vars

\* A wait for the unknown id 0 has returned null and the last status query
\* was for id 0, while the registry holds a completed record.
C19_Witness ==
  /\ \E w \in DOMAIN waits :
       /\ waits[w].commandId = 0
       /\ waits[w].pc = "done"
       /\ waits[w].result = "null"
  /\ returned = Returns("checkCommandStatus", 0, "null", <<>>)
  /\ activeCommands = {1}
  /\ commandObjects[1].status = "completed"

\* C18: a grep answered while the record is pending, by grepCommandOutput or
\* by the grep-command-output tool, is an error and not a list of matches.
C18_GrepOnPendingIsRejected ==
  (/\ returned # None
   /\ returned[1].op \in {"grepCommandOutput", "grep-command-output"}
   /\ returned[1].commandId \in activeCommands
   /\ commandObjects[returned[1].commandId].status = "pending")
    => returned[1].kind = "isError: Command still pending"

\* C20: cleanupOldCommands(maxAge) removes from the registry exactly the
\* records that are terminal and whose age exceeds maxAge minutes: pending
\* records and terminal records of age maxAge or less stay, nothing is added,
\* and no record object changes.
C20_CleanupRemovesOldTerminalOnly ==
  [][\A maxAgeMinutes \in CleanupAges :
       CleanupOldCommands(maxAgeMinutes)
         => /\ activeCommands' \subseteq activeCommands
            /\ \A id \in activeCommands :
                 (id \notin activeCommands')
                   <=> (/\ Terminal(commandObjects[id])
                        /\ now - commandObjects[id].startTime > maxAgeMinutes * MsPerMinute)
            /\ commandObjects' = commandObjects]_vars

\* The completed record 1 was removed while record 2, pending and more than a
\* minute old, is still in the registry.
C20_Witness ==
  /\ 1 \notin activeCommands
  /\ commandObjects[1].status = "completed"
  /\ 2 \in activeCommands
  /\ commandObjects[2].status = "pending"
  /\ now - commandObjects[2].startTime > MsPerMinute

\* The positions in the log of the helper definitions sent to pane p.
DefsTo(p) == {e \in DOMAIN sendLog : sendLog[e].kind = "def" /\ sendLog[e].paneId = p}

\* C21: while at most one setShellConfig call was made (so a pane that became
\* a tclsh pane has stayed one), the helper definition was sent at most once
\* to each pane, and every helper invocation sent to a pane follows a helper
\* definition sent to it.
C21_HelperInstalledOnce ==
  run.configs >= MaxConfigs - 1
    => \A p \in Panes :
         /\ Cardinality(DefsTo(p)) <= 1
         /\ \A e \in DOMAIN sendLog :
              (sendLog[e].kind = "cmd" /\ sendLog[e].shellType = "tclsh"
                 /\ sendLog[e].paneId = p)
                => \E d \in DefsTo(p) : d < e

\* The dialect of pane p under a shell configuration: its override, else the
\* default.
DialectIn(config, p) ==
  IF p \in DOMAIN config.paneOverrides THEN config.paneOverrides[p] ELSE config.defaultType

\* C22: in a step in which the dialect of a pane becomes tclsh, coming from
\* another dialect, the pane is left unmarked, so that the next non-raw
\* command for it sends the helper definition.
C22_BackToTclshReinstalls ==
  [][\A p \in Panes :
       (DialectIn(shellConfig, p) # "tclsh" /\ DialectIn(shellConfig', p) = "tclsh")
         => p \notin tclshInitializedPanes']_vars

\* The targets of setShellConfig: the default, or the override of a pane.
ConfigTargets == {None} \cup {Some(p) : p \in Panes}

\* C26: a setShellConfig call for pane P makes its dialect the dialect of P
\* and changes that of no other pane; a call for the default makes its dialect
\* the dialect of every pane without override and leaves the panes with an
\* override alone; and executeCommand wraps for the override of its pane when
\* there is one, for the default otherwise, as they are when it is called.
C26_OverrideElseDefault ==
  [][/\ \A type \in ConfigTypes, target \in ConfigTargets :
          SetShellConfig(type, target)
            => \A p \in Panes :
                 DialectIn(shellConfig', p) =
                   IF target = Some(p) THEN normalizeShellType(type)
                   ELSE IF target = None /\ p \notin DOMAIN shellConfig.paneOverrides
                   THEN normalizeShellType(type)
                   ELSE DialectIn(shellConfig, p)
     /\ Len(calls') > Len(calls)
          => LET fr == calls'[Len(calls')]
             IN  fr.shellType = DialectIn(shellConfig, fr.paneId)
     /\ \A e \in DOMAIN sendLog' :
          sendLog'[e].shellType = calls'[sendLog'[e].call].shellType]_vars

\* Pane %0 has the override tclsh and pane %1 none while the default is fish;
\* a helper invocation went to %0 and a fish wrapping to %1.
C26_Witness ==
  /\ DOMAIN shellConfig.paneOverrides = {"%0"}
  /\ shellConfig.paneOverrides["%0"] = "tclsh"
  /\ shellConfig.defaultType = "fish"
  /\ \E e \in DOMAIN sendLog :
       sendLog[e].kind = "cmd" /\ sendLog[e].paneId = "%0" /\ sendLog[e].shellType = "tclsh"
  /\ \E e \in DOMAIN sendLog :
       sendLog[e].kind = "cmd" /\ sendLog[e].paneId = "%1" /\ sendLog[e].shellType = "fish"

\* C27: setShellConfig with a string that names no supported dialect makes
\* bash the dialect of the targeted pane, or the default.
C27_UnknownDialectIsBash ==
  [][\A target \in ConfigTargets :
       SetShellConfig("powershell", target)
         => IF target = None
            THEN shellConfig'.defaultType = "bash"
            ELSE /\ target[1] \in DOMAIN shellConfig'.paneOverrides
                 /\ shellConfig'.paneOverrides[target[1]] = "bash"]_vars

\* The default is fish and pane %0 has the override bash, which only a call
\* with the unsupported string sets; a command for %0 was wrapped for bash.
C27_Witness ==
  /\ shellConfig.defaultType = "fish"
  /\ "%0" \in DOMAIN shellConfig.paneOverrides
  /\ shellConfig.paneOverrides["%0"] = "bash"
  /\ \E e \in DOMAIN sendLog :
       sendLog[e].kind = "cmd" /\ sendLog[e].paneId = "%0" /\ sendLog[e].shellType = "bash"

\* The number of non-raw calls among the first n.
NonRawUpTo(n) == Cardinality({c \in 1..n : NonRaw(c)})

\* C25: when the calls are made one after another, the record of the i-th
\* non-raw call carries sequence number i and the wrapped text sent for it
\* carries i, whatever its pane and dialect; the record of a raw call carries
\* none; and the counter is the number of non-raw calls that have committed.
C25_SequentialNumbersCountNonRaw ==
  /\ \A id \in DOMAIN commandObjects :
       commandObjects[id].sequenceNumber =
         IF NonRaw(id) THEN NonRawUpTo(id) ELSE Undefined
  /\ \A e \in DOMAIN sendLog :
       sendLog[e].kind = "cmd" => sendLog[e].seq = NonRawUpTo(sendLog[e].call)
  /\ wrappedCommandSequenceCounter =
       Cardinality({id \in DOMAIN commandObjects : NonRaw(id)})

\* Three calls have returned: a helper invocation for the tclsh pane %0 with
\* number 1, a raw command, and a wrapped command for pane %1 with number 2.
C25_Witness ==
  /\ Len(calls) = 3
  /\ Awaited
  /\ calls[1].paneId = "%0" /\ calls[1].shellType = "tclsh" /\ NonRaw(1)
  /\ calls[2].rawMode
  /\ calls[3].paneId = "%1" /\ calls[3].shellType # "tclsh" /\ NonRaw(3)
  /\ commandObjects[1].sequenceNumber = 1
  /\ commandObjects[3].sequenceNumber = 2

\* C23: the record of a raw command carries no sequence number and, whatever
\* the status queries and waits made on it and whatever the pane shows, it is
\* pending, without exit code and without cached output.
C23_RawRecordStaysPending ==
  \A id \in DOMAIN commandObjects :
    commandObjects[id].rawMode
      => /\ commandObjects[id].sequenceNumber = Undefined
         /\ commandObjects[id].status = "pending"
         /\ commandObjects[id].exitCode = Undefined
         /\ commandObjects[id].outputLines = None

\* The pane shows a complete block of sequence number 1; a status query on
\* the raw record has returned and a wait on it has timed out after sleeping.
C23_Witness ==
  /\ paneLines["%0"] = <<StartMarker(1, 0), Text("x", 0, 0), EndMarker(0, 1, 0)>>
  /\ 1 \in activeCommands
  /\ commandObjects[1].rawMode
  /\ commandObjects[1].result = Some(RawModeNotice)
  /\ \E w \in DOMAIN waits :
       /\ waits[w].commandId = 1
       /\ waits[w].pc = "done"
       /\ waits[w].result = "record"
       /\ waits[w].wake > 0

\* The line X that the command of record id prints, as the pane shows it.
PrintedLine(id) == Text(CmdOutput(commandObjects[id].command)[1], 0, id)

\* C24 as stated: a terminal record is completed with exit code 0 and its
\* output, cached and shown, is exactly the line X its command printed.
C24_RoundTripYieldsPrintedLine ==
  \A id \in DOMAIN commandObjects :
    Terminal(commandObjects[id])
      => /\ commandObjects[id].status = "completed"
         /\ commandObjects[id].exitCode = 0
         /\ commandObjects[id].outputLines = Some(<<PrintedLine(id)>>)
         /\ commandObjects[id].result = Some(TextResult(<<PrintedLine(id)>>))

\* The sentinels as C28 gives them.
StartSentinel(seq) == "TMUX_MCP_START_" \o ToString(seq)

EndSentinel(shellType, seq) ==
  IF shellType = "fish"
  THEN "TMUX_MCP_DONE_\"{$status}\"_" \o ToString(seq)
  ELSE "TMUX_MCP_DONE_$?_" \o ToString(seq)

\* C28: every wrapped command sent to a bash, zsh or fish pane echoes the
\* start sentinel TMUX_MCP_START_<seq>, runs the command text, and echoes the
\* end sentinel with the same seq: TMUX_MCP_DONE_"{$status}"_<seq> for fish,
\* TMUX_MCP_DONE_$?_<seq> for bash and zsh.
C28_WrapperSentinelsByDialect ==
  \A e \in DOMAIN sendLog :
    (sendLog[e].kind = "cmd" /\ sendLog[e].shellType \in WrapTypes)
      => fullCommand(sendLog[e]) =
           "echo \"" \o StartSentinel(sendLog[e].seq) \o "\"; "
             \o calls[sendLog[e].call].command \o "; echo \""
             \o EndSentinel(sendLog[e].shellType, sendLog[e].seq) \o "\""

\* C29: a capture with an explicit start asks the multiplexer for the
\* history from its beginning (-S -), every capture asks up to the end
\* (-E -), and the offsets are applied once, to the whole scrollback.
C29_CaptureAsksWholeHistory ==
  returned # None =>
    LET r == returned[1]
        whole == SplitLines(paneLines["%0"])
        idx == captureSlice(whole, r.options)
    IN  /\ r.E = "-"
        /\ r.options.start # None
             => /\ r.S = "-"
                /\ r.content = JoinLines(Slice(whole, idx.sliceStart, idx.sliceEnd))

\* The numeric value of an option that has one.
HasNumber(opt) == opt # None /\ ~opt[1].nan

\* S and E as C30 gives them for T returned lines; withZero tells whether the
\* rule for an absent start is taken for lines = 0 as well.
ClaimedStart(T, options, withZero) ==
  IF options.start = None
  THEN IF withZero \/ LinesOf(options) > 0 THEN Max(0, T - LinesOf(options)) ELSE 0
  ELSE IF options.start[1].num >= 0 THEN Min(T, options.start[1].num)
  ELSE Max(0, T + options.start[1].num)

ClaimedEnd(T, options) ==
  IF ~HasNumber(options.end) THEN T
  ELSE IF options.end[1].num >= 0 THEN Min(T, options.end[1].num + 1)
  ELSE Max(0, T + options.end[1].num + 1)

ClaimedContent(r, withZero) ==
  LET T == Len(r.linesArray)
      S == ClaimedStart(T, r.options, withZero)
      E == ClaimedEnd(T, r.options)
  IN  IF E < S THEN <<>> ELSE JoinLines(Slice(r.linesArray, S, E))

\* The options C30 speaks of: start absent or a number, end absent, '-' or a
\* number.
Claimed(options) ==
  /\ options.start = None \/ HasNumber(options.start)
  /\ options.end = None \/ HasNumber(options.end) \/ options.end[1] = JsDash

\* C30 as stated: the returned lines are those with index in [S, E), with
\* S = max(0, T - lines) for every lines when no start is given.
C30_ReturnsClaimedWindow ==
  (returned # None /\ Claimed(returned[1].options))
    => returned[1].content = ClaimedContent(returned[1], TRUE)

\* C30 amended: the returned lines are those with index in [S, E), with
\* S = max(0, T - lines) when no start is given and lines > 0, and S = 0 when
\* no start is given and lines = 0.
C30_ReturnsWindowAllForZeroLines ==
  (returned # None /\ Claimed(returned[1].options))
    => returned[1].content = ClaimedContent(returned[1], FALSE)

\* A capture of the last 2 lines for which the multiplexer returned 3, and
\* the 2 last were returned.
C30_Witness ==
  /\ returned # None
  /\ returned[1].options = CaptureOptions(Some(2), None, None)
  /\ Len(returned[1].linesArray) = 3
  /\ returned[1].content = <<BufferLine(1), BufferLine(2)>>

\* The flags without g.
WithoutGlobal(flags) ==
  IF flags = Some("g") THEN None ELSE IF flags = Some("gi") THEN Some("i") ELSE flags

\* The cached output lines the pattern matches, in their order.
MatchingLines(id, pattern, flags) ==
  LET Hit(line) == RegexTest(pattern, flags, line)
  IN  SelectSeq(commandObjects[id].outputLines[1], Hit)

\* C31: for a terminal record, a grep with flags that contain g returns the
\* lines the grep without g returns, every cached output line the pattern
\* matches.
C31_GlobalFlagIsIgnored ==
  [][\A id \in activeCommands, pattern \in GrepPatterns, flags \in GrepFlags :
       (/\ GrepCommandOutput(id, pattern, flags)
        /\ Terminal(commandObjects[id])
        /\ commandObjects[id].outputLines # None
        /\ ValidPattern(pattern)
        /\ Global(flags))
         => /\ returned'[1].lines = grepCommandOutput(id, pattern, WithoutGlobal(flags))
            /\ returned'[1].lines = MatchingLines(id, pattern, flags)]_vars

\* C32: the exit code of a terminal record is the exit status of its own
\* command, never the code of an end marker another command printed.
C32_ExitCodeIsOwn ==
  \A id \in DOMAIN commandObjects :
    Terminal(commandObjects[id])
      => commandObjects[id].exitCode = CmdExit(commandObjects[id].command)

\* C33: the id of a record that cleanupOldCommands has removed (every record
\* that was dispatched and is not in the registry) is not in the registry
\* after any later step.
C33_RemovedIdStaysRemoved ==
  [][\A id \in DOMAIN commandObjects :
       id \notin activeCommands => id \notin activeCommands']_vars

\* C34: when the two calls made so far are non-raw calls for one pane, both
\* made while it was a tclsh pane, one helper definition at most was sent to
\* the pane, and every helper invocation sent to it follows a helper
\* definition sent to it.
C34_TwoCallsOneDefinition ==
  \A p \in Panes :
    (/\ Len(calls) = 2
     /\ \A c \in DOMAIN calls :
          calls[c].paneId = p /\ NonRaw(c) /\ calls[c].shellType = "tclsh")
      => /\ Cardinality(DefsTo(p)) <= 1
         /\ \A e \in DOMAIN sendLog :
              (sendLog[e].kind = "cmd" /\ sendLog[e].paneId = p)
                => \E d \in DefsTo(p) : d < e

\* The window of T cached lines a request o asks for, by the precedence of
\* C35: the explicit range when start or end is given, else the last lines
\* when a line count is given, else the default trailing window.
RequestedWindow(T, o) ==
  IF o.start # None \/ o.end # None
  THEN LET S == IF o.start # None THEN o.start[1] ELSE 0
           E == IF o.end # None THEN Min(T, o.end[1] + 1) ELSE T
       IN  [start |-> S, end |-> IF E < S THEN S ELSE E]
  ELSE IF o.lines # None
  THEN [start |-> T - Min(o.lines[1], T), end |-> T]
  ELSE [start |-> T - Min(DEFAULT_RESULT_LINES, T), end |-> T]

\* C35: a status query that slices the cached output (any query with
\* options, and the query without options that resolves the record) exposes
\* the window of the explicit range when start or end is given, whatever
\* lines is; the last min(N, T) lines when only lines = N is given; the
\* default trailing window when none of the three is given.
C35_SliceShapesByPrecedence ==
  [][(/\ Terminal(commandObjects'[1])
      /\ \/ checks' # checks
         \/ returned' = Returns("checkCommandStatus", 1, "record", <<>>))
       => \A o \in PrecedenceRequests :
            (SlicedBy(1, o) /\ (o = NoOptions => ~Terminal(commandObjects[1])))
              => LET after == commandObjects'[1]
                     w == RequestedWindow(Len(after.outputLines[1]), o)
                 IN  /\ after.lineStartIndex = w.start
                     /\ after.lineEndIndex = w.end
                     /\ after.returnedLines = w.end - w.start]_vars

\* A record of 3 cached lines exposes its line 0 alone, a window that only
\* an explicit range gives.
C35_Witness ==
  /\ Terminal(commandObjects[1])
  /\ commandObjects[1].totalLines = 3
  /\ commandObjects[1].lineStartIndex = 0
  /\ commandObjects[1].lineEndIndex = 1
  /\ commandObjects[1].returnedLines = 1

\* The lines the pane %0 shows between the two markers.
BetweenMarkers == SubSeq(paneLines["%0"], 2, Len(paneLines["%0"]) - 1)

\* C36: the cached output of a finalized record is the lines between the
\* markers without the first of them when that line, trimmed, is the trimmed
\* command text, and all of them when it is not: one line at most is
\* dropped, and every later line is kept, also one that repeats the command.
C36_EchoDroppedOnce ==
  Terminal(commandObjects[1])
    => LET body == BetweenMarkers
           cached == commandObjects[1].outputLines[1]
       IN  IF body # <<>> /\ Trim(body[1].txt) = Trim(commandObjects[1].command)
           THEN cached = Tail(body)
           ELSE cached = body

\* The command 'ls' was finalized on a pane that shows ' ls ' and then 'ls'
\* between the markers: the first line is dropped, the second is kept.
C36_Witness ==
  /\ Terminal(commandObjects[1])
  /\ commandObjects[1].command = "ls"
  /\ Len(BetweenMarkers) >= 2
  /\ BetweenMarkers[1].txt = Padded("ls")
  /\ BetweenMarkers[2].txt = "ls"
  /\ commandObjects[1].outputLines = Some(Tail(BetweenMarkers))

\* C37: a waitForCompletion call returns; when it returns a record that is
\* still pending it has made a status check that captured the pane, also
\* with timeout 0, and the timeout has elapsed; it polls again after a sleep
\* only when the interval has passed since the sleep began.
C37_WaitTerminates ==
  /\ (waits # <<>>) ~> (waits # <<>> /\ waits[1].pc = "done")
  /\ [][\A w \in DOMAIN waits' :
          LET fr == waits'[w]
          IN  /\ (fr.pc = "done" /\ fr.result = "record"
                    /\ commandObjects'[fr.commandId].status = "pending")
                   => (fr.check > 0 /\ now' - fr.start >= fr.timeoutMs)
              /\ (fr.pc = "sleep" /\ (w \notin DOMAIN waits \/ waits[w].pc # "sleep"))
                   => fr.wake = now' + fr.intervalMs
              /\ (w \in DOMAIN waits /\ waits[w].pc = "sleep" /\ fr.pc # "sleep")
                   => now >= waits[w].wake]_vars

\* The wait for a raw record with timeout 2 has slept and has returned the
\* record still pending.
C37_Witness ==
  /\ waits # <<>>
  /\ waits[1].pc = "done"
  /\ waits[1].commandId = 1
  /\ waits[1].timeoutMs = 2
  /\ waits[1].wake > 0
  /\ commandObjects[1].rawMode
  /\ commandObjects[1].status = "pending"

\* C38: grepCommandOutput on a terminal record returns the cached output
\* lines the pattern matches, in their order, and no line when the pattern
\* does not compile; the registry and the records are left unchanged.
C38_GrepReturnsMatchingLines ==
  [][\A id \in activeCommands, pattern \in GrepPatterns, flags \in GrepFlags :
       (/\ GrepCommandOutput(id, pattern, flags)
        /\ Terminal(commandObjects[id])
        /\ commandObjects[id].outputLines # None)
         => /\ returned'[1].lines = IF ValidPattern(pattern)
                                    THEN MatchingLines(id, pattern, flags)
                                    ELSE <<>>
            /\ UNCHANGED registryVars]_vars

\* C38 for the calls whose flags do not contain g.
GrepWithoutGlobalReturnsMatchingLines ==
  [][\A id \in activeCommands, pattern \in GrepPatterns, flags \in GrepFlags :
       (/\ GrepCommandOutput(id, pattern, flags)
        /\ ~Global(flags)
        /\ Terminal(commandObjects[id])
        /\ commandObjects[id].outputLines # None)
         => /\ returned'[1].lines = IF ValidPattern(pattern)
                                    THEN MatchingLines(id, pattern, flags)
                                    ELSE <<>>
            /\ UNCHANGED registryVars]_vars


\* ---- the keys of a call

\* The argument vectors of the send-keys invocations of call id, in order.
RECURSIVE ArgvOf(_, _)
ArgvOf(log, id) ==
  IF log = <<>> THEN <<>>
  ELSE IF Head(log).call = id THEN <<Head(log).argv>> \o ArgvOf(Tail(log), id)
  ELSE ArgvOf(Tail(log), id)

StartsWith(all, begin) ==
  Len(begin) <= Len(all) /\ SubSeq(all, 1, Len(begin)) = begin

\* The named keys: arrows, function keys, editing keys.
NamedKeys ==
  {"Up", "Down", "Left", "Right"}
    \cup {"F" \o ToString(n) : n \in 1..12}
    \cup {"Escape", "Tab", "Enter", "Space", "BSpace", "Delete", "Home", "End",
          "PageUp", "PageDown"}

\* The sends a call is to make: a named key as one key name, any other text
\* of a noEnter call one character per send, and otherwise the whole text
\* followed by Enter.
ClaimedSends(fr) ==
  LET to == <<"tmux", "send-keys", "-t", fr.paneId>>
      text == IF fr.rawMode THEN fr.command
              ELSE buildWrappedCommand(fr.command, fr.shellType, fr.sequenceNumber)
  IN  IF fr.noEnter
      THEN IF fr.command \in NamedKeys THEN <<Append(to, fr.command)>>
           ELSE [i \in 1..Len(fr.chars) |-> Append(to, fr.chars[i])]
      ELSE <<to \o <<text, "Enter">>>>

SendsAsClaimed(id) ==
  /\ StartsWith(ClaimedSends(calls[id]), ArgvOf(sendLog, id))
  /\ calls[id].pc = "done" => ArgvOf(sendLog, id) = ClaimedSends(calls[id])

\* The key Enter is among the keys of an argument vector.
SendsEnter(argv) == \E i \in 5..Len(argv) : argv[i] = "Enter"

\* C39 (as stated): with noEnter a text that is a named key is sent as one key
\* name and any other text one character per send in the order of the text,
\* without noEnter the whole text is sent in one send followed by Enter, and
\* no send of a noEnter call holds the key Enter.
C39_NoEnterNeverSendsEnter ==
  \A id \in DOMAIN calls :
    /\ SendsAsClaimed(id)
    /\ calls[id].noEnter =>
         \A i \in 1..Len(ArgvOf(sendLog, id)) : ~SendsEnter(ArgvOf(sendLog, id)[i])

\* C39 (amended): with noEnter a text that is a named key is sent as one key
\* name and any other text one character per send in the order of the text,
\* nothing else being sent: a noEnter call sends the key Enter exactly when
\* its text is the named key Enter.  Without noEnter the whole wrapped or raw
\* text is sent in one send followed by Enter.
C39_KeysAsNamedOrSplit ==
  \A id \in DOMAIN calls :
    /\ SendsAsClaimed(id)
    /\ (calls[id].noEnter /\ calls[id].pc = "done") =>
         ((\E i \in 1..Len(ArgvOf(sendLog, id)) : SendsEnter(ArgvOf(sendLog, id)[i]))
            <=> calls[id].command = "Enter")

\* A noEnter call with a text of two characters, one of them a quote, and a
\* call without noEnter with the same text have both returned.
C39_Witness ==
  /\ Len(calls) = 2
  /\ \A id \in DOMAIN calls : calls[id].pc = "done" /\ calls[id].command = "'s"
  /\ calls[1].noEnter /\ Len(ArgvOf(sendLog, 1)) = 2
  /\ ~calls[2].noEnter /\ ~calls[2].rawMode /\ Len(ArgvOf(sendLog, 2)) = 1

====
